---- MODULE Spec2Model ----
(***************************************************************************)
(* Model of the PrediccionesPro data pipeline: the persistent historical   *)
(* store (RealResultsService), the extractor result that feeds it          *)
(* (LotoVenService), the bulk backfill (LoteriaDehoyService) and the       *)
(* frequency analyzer (StatisticalAnalysisService).                        *)
(*                                                                         *)
(* Encoding.  Dates are ISO strings in the code and are only compared with *)
(* === and localeCompare; they are modelled by their day number, whose     *)
(* integer order is the string order.  Hours are "HH:MM" strings,          *)
(* modelled by the hour of day.  The clock counts minutes.  An Animal is   *)
(* identified by its id; the catalog gives id = number = two-digit code.   *)
(***************************************************************************)
EXTENDS Integers, Sequences, FiniteSets, TLC

\* ------------------------------------------------------------- bounds ---
MaxOps == 3            \* operations in one run
MaxBatch == 2          \* rows on the archive pages of one backfill
MaxHistory == 6        \* records stored by earlier sessions

\* ---------------------------------------------------------- constants ---
MinutesPerDay == 1440
VE_OFFSET == 240                 \* 4 * 60 * 60 * 1000 ms, in minutes
CACHE_DURATION == 2              \* RealResultsService.CACHE_DURATION (min)
LOTOVEN_CACHE_DURATION == 3      \* LotoVenService.CACHE_DURATION (min)
PREDICTION_CACHE_DURATION == 5   \* PredictionService.CACHE_DURATION (min)
MASSIVE_LOAD_DAYS == 7
NEVER_APPEARED == 999

Null == "null"
Lotteries == {"GUACHARO", "LOTTO_ACTIVO"}

\* constants.ts ANIMALS, by id, in catalog order
ANIMALS ==
  << "00", "01", "02", "03", "04", "05", "06", "07", "08", "09",
     "10", "11", "12", "13", "14", "15", "16", "17", "18", "19",
     "20", "21", "22", "23", "24", "25", "26", "27", "28", "29",
     "30", "31", "32", "33", "34", "35", "36" >>

\* keys of animalMap in RealResultsService.findAnimalByNumber
animalMap ==
  { "00", "01", "02", "03", "04", "05", "06", "07", "08", "09",
    "10", "11", "12", "13", "14", "15", "16", "17", "18", "19",
    "20", "21", "22", "23", "24", "25", "26", "27", "28", "29",
    "30", "31", "32", "33", "34", "35", "36" }

\* ------------------------------------------------- inputs of the model ---
PageHours == {9, 10}                       \* draw hours
PageAnimals == {"05", "06"}                \* entities drawn
StartTime == 3 * MinutesPerDay + VE_OFFSET \* clock at start: day 3, 00:00 VET
\* rows (fecha, hora, numero) found on the archive pages; "5" is a numero
\* that RealResultsService.findAnimalByNumber does not know
ArchiveRows ==
  { [date |-> 2, time |-> 9, animalNumber |-> "05"],
    [date |-> 3, time |-> 9, animalNumber |-> "06"],
    [date |-> 3, time |-> 10, animalNumber |-> "5"] }
AnalysisDepths == {0, 2}                   \* analysisDepth; 0 is "not given"
AdvanceSteps == {4, MASSIVE_LOAD_DAYS * MinutesPerDay}

\* ------------------------------------------------------------ helpers ---
RECURSIVE SeqToSet(_)
SeqToSet(s) == IF s = <<>> THEN {} ELSE {Head(s)} \cup SeqToSet(Tail(s))

Min(a, b) == IF a < b THEN a ELSE b

\* todayStr: venezuelaTime.toISOString().split('T')[0]
TodayStr(t) == (t - VE_OFFSET) \div MinutesPerDay

\* variant: the hours compared the other way round
GoesBeforeHourAscending(a, b) ==
  \/ a.date > b.date
  \/ a.date = b.date /\ a.hour < b.hour

\* comparator of the two sorts: negative (TRUE here) when a goes first
GoesBefore(a, b) ==
  \/ a.date > b.date
  \/ a.date = b.date /\ a.hour > b.hour

\* Array.prototype.sort with that comparator (stable)
RECURSIVE InsertSorted(_, _)
InsertSorted(x, s) ==
  IF s = <<>> THEN <<x>>
  ELSE IF GoesBefore(x, Head(s)) THEN <<x>> \o s
       ELSE <<Head(s)>> \o InsertSorted(x, Tail(s))

RECURSIVE SortHistory(_)
SortHistory(s) ==
  IF s = <<>> THEN <<>>
  ELSE InsertSorted(s[Len(s)], SortHistory(SubSeq(s, 1, Len(s) - 1)))

\* ---------------------------------------------------------- extractor ---
\* Raw (time, entity) matches of one page, in page order; PageMatches are
\* the (time, entity) pairs the primary pattern finds on the live page
RawMatches ==
  LET PageMatches ==
        { [hour |-> 9, animal |-> "05"], [hour |-> 9, animal |-> "06"],
          [hour |-> 10, animal |-> "05"] }
  IN { <<>> } \cup { <<m>> : m \in PageMatches } \cup
     { <<m1, m2>> : m1 \in PageMatches, m2 \in PageMatches }

\* self.findIndex(d => d.hour === draw.hour), 1-based
RECURSIVE FindIndexHour(_, _, _)
FindIndexHour(s, h, i) ==
  IF i > Len(s) THEN 0
  ELSE IF s[i].hour = h THEN i ELSE FindIndexHour(s, h, i + 1)

RECURSIVE InsertByHour(_, _)
InsertByHour(x, s) ==
  IF s = <<>> THEN <<x>>
  ELSE IF x.hour < Head(s).hour THEN <<x>> \o s
       ELSE <<Head(s)>> \o InsertByHour(x, Tail(s))

RECURSIVE SortByHour(_)
SortByHour(s) ==
  IF s = <<>> THEN <<>>
  ELSE InsertByHour(s[Len(s)], SortByHour(SubSeq(s, 1, Len(s) - 1)))

\* LotoVenService.parseHTML, from the matches on: in-loop duplicate check on
\* (hour, animal.id), then uniqueDraws = first draw of each hour, sorted by hour
RECURSIVE DropDuplicateDraws(_, _)
DropDuplicateDraws(raw, draws) ==
  IF raw = <<>> THEN draws
  ELSE LET d == Head(raw)
           isDuplicate == \E i \in 1..Len(draws) :
                             draws[i].hour = d.hour /\ draws[i].animal = d.animal
       IN DropDuplicateDraws(Tail(raw), IF isDuplicate THEN draws ELSE Append(draws, d))

uniqueDraws(raw) ==
  LET DrawsOf(kept) == SortByHour([i \in 1..Len(kept) |-> kept[i].d])
      FirstOfHour(draws) ==
        DrawsOf(SelectSeq([i \in 1..Len(draws) |-> [idx |-> i, d |-> draws[i]]],
                          LAMBDA e : e.idx = FindIndexHour(draws, e.d.hour, 1)))
  IN FirstOfHour(DropDuplicateDraws(raw, <<>>))

\* ---------------------------------------------------------------- state ---
VARIABLES
  history,       \* localStorage real_history_persistent_v1_<lottery>
  todayCache,    \* localStorage real_results_today_v1_<lottery>
  lotovenCache,  \* localStorage lotoven_results_v2_<lottery>
  massiveLoad,   \* localStorage massive_load_<lottery>: time of the load, -1 absent
  now,           \* Date.now()
  nops,          \* operations run so far
  result,        \* the last operation, its arguments and its return value
  reported,      \* per lottery, the records some operation has reported as added
  predictionCache, \* localStorage statistical_predictions_v1_<lottery>
  pending        \* per lottery, the getHistoricalResults call waiting for its fetch
                 \* and the number of backfill calls waiting for the archive

vars == <<history, todayCache, lotovenCache, massiveLoad, now, nops, result, reported,
          predictionCache, pending>>

NoCache == [present |-> FALSE, draws |-> <<>>, sources |-> <<>>, timestamp |-> 0]
NoPrediction == [present |-> FALSE, prediction |-> Null, timestamp |-> 0]
NoCall == [active |-> FALSE, persistentHistory |-> <<>>, loads |-> 0]

\* getCachedTodayResults / LotoVenService.getCachedResults: entry or "null"
Unexpired(c, duration) == c.present /\ ~(now - c.timestamp > duration)

\* a sources entry: its text, the number it states and how many times the
\* tag " (cached)" has been appended to it
ResultsSource(n) == [text |-> "LotoVen results", attempts |-> n, cached |-> 0]
FailedSource(n) == [text |-> "LotoVen - Failed", attempts |-> n, cached |-> 0]

\* variant: the cached entry handed back as it was stored
getCachedResultsUntagged(l) ==
  [draws |-> lotovenCache[l].draws, sources |-> lotovenCache[l].sources]

\* LotoVenService.getCachedResults on an unexpired entry: every source of the
\* entry gets the tag
getCachedResults(l) ==
  [draws |-> lotovenCache[l].draws,
   sources |-> [i \in DOMAIN lotovenCache[l].sources |->
                  [lotovenCache[l].sources[i] EXCEPT !.cached = @ + 1]]]

\* LotoVenService.getResults once the fetch attempts have answered with the
\* draws r (<<>> when every attempt fails); only non-empty results are
\* cached, with the sources entry of parseHTML
FetchedResults(l, r, wok) ==
  [draws |-> r,
   cache |-> IF Len(r) > 0 /\ wok
             THEN [present |-> TRUE, draws |-> r, sources |-> << ResultsSource(Len(r)) >>,
                   timestamp |-> now]
             ELSE lotovenCache[l],
   fetched |-> TRUE]

\* LotoVenService.getResults: cache first, else the fetch
getResults(l, raw, wok) ==
  IF Unexpired(lotovenCache[l], LOTOVEN_CACHE_DURATION)
  THEN [draws |-> lotovenCache[l].draws, cache |-> lotovenCache[l], fetched |-> FALSE]
  ELSE FetchedResults(l, uniqueDraws(raw), wok)

\* what one fetch attempt of getResults comes to: it throws (network, HTTP
\* status, timeout, short answer) or it answers with a page, whose primary
\* pattern matches are page
AttemptOutcomes ==
  { [threw |-> TRUE, page |-> <<>>], [threw |-> FALSE, page |-> <<>>],
    [threw |-> FALSE, page |-> <<[hour |-> 9, animal |-> "05"]>>] }

\* the attempts of one call: one per CORS proxy, then the direct fetch; the
\* calls tried are those whose attempts throw first, then answer pages
\* without draws, then pages with the draw
NumAttempts == 5
AttemptSeqs ==
  LET AttemptRank(outcome) ==
        IF outcome.threw THEN 0 ELSE IF outcome.page = <<>> THEN 1 ELSE 2
  IN { outcomes \in [1..NumAttempts -> AttemptOutcomes] :
         \A i \in 1..(NumAttempts - 1) :
           AttemptRank(outcomes[i]) <= AttemptRank(outcomes[i + 1]) }

\* the loop over the proxies and the direct fetch of getResults, from attempt
\* i on, errors counting the attempts that threw so far: the first attempt
\* with draws is returned, else the failure summary
RECURSIVE TryAttempts(_, _, _)
TryAttempts(outcomes, i, errors) ==
  IF i > Len(outcomes)
  THEN [draws |-> <<>>, succeeded |-> FALSE,
        sources |-> << FailedSource(errors) >>]
  ELSE IF outcomes[i].threw THEN TryAttempts(outcomes, i + 1, errors + 1)
  ELSE IF Len(uniqueDraws(outcomes[i].page)) > 0
       THEN [draws |-> uniqueDraws(outcomes[i].page), succeeded |-> TRUE,
             sources |-> << ResultsSource(Len(uniqueDraws(outcomes[i].page))) >>]
       ELSE TryAttempts(outcomes, i + 1, errors)

\* LotoVenService.getResults with the outcome of every attempt it may make;
\* a read of the extractor, not counted among the operations of a run
getResultsAttempting(l, outcomes, wok) ==
  /\ IF Unexpired(lotovenCache[l], LOTOVEN_CACHE_DURATION)
     THEN /\ result' = [op |-> "getResults", lottery |-> l, outcomes |-> outcomes,
                        cached |-> TRUE, draws |-> getCachedResults(l).draws,
                        sources |-> getCachedResults(l).sources]
          /\ UNCHANGED lotovenCache
     ELSE LET Tried(r) ==
                /\ result' = [op |-> "getResults", lottery |-> l, outcomes |-> outcomes,
                              cached |-> FALSE, draws |-> r.draws, sources |-> r.sources]
                /\ lotovenCache' = [lotovenCache EXCEPT ![l] =
                                      FetchedResults(l, r.draws, wok).cache]
          IN Tried(TryAttempts(outcomes, 1, 0))
  /\ UNCHANGED <<history, todayCache, massiveLoad, now, nops, reported, predictionCache,
                 pending>>

\* RealResultsService.getTodayResults once LotoVenService.getResults has
\* answered with lv
FetchedTodayResults(l, lv, wok) ==
  [draws |-> lv.draws,
   today |-> IF Len(lv.draws) > 0 /\ wok
             THEN [present |-> TRUE, draws |-> lv.draws,
                   sources |-> IF lv.fetched THEN << ResultsSource(Len(lv.draws)) >>
                               ELSE getCachedResults(l).sources,
                   timestamp |-> now]
             ELSE todayCache[l],
   lotoven |-> lv.cache,
   fetched |-> lv.fetched]

\* RealResultsService.getTodayResults
getTodayResults(l, raw, wok) ==
  IF Unexpired(todayCache[l], CACHE_DURATION)
  THEN [draws |-> todayCache[l].draws, today |-> todayCache[l],
        lotoven |-> lotovenCache[l], fetched |-> FALSE]
  ELSE FetchedTodayResults(l, getResults(l, raw, wok), wok)

\* variant: the forEach without the test for an existing entry
RECURSIVE MergeTodayUnchecked(_, _, _, _)
MergeTodayUnchecked(persistentHistory, draws, todayStr, added) ==
  IF draws = <<>> THEN [history |-> persistentHistory, added |-> added]
  ELSE LET draw == Head(draws)
           newEntry == [date |-> todayStr, hour |-> draw.hour, animal |-> draw.animal,
                        number |-> draw.animal, source |-> "LotoVen", timestamp |-> now]
       IN IF draw.animal # Null
          THEN MergeTodayUnchecked(<<newEntry>> \o persistentHistory, Tail(draws),
                                   todayStr, added + 1)
          ELSE MergeTodayUnchecked(persistentHistory, Tail(draws), todayStr, added)

\* the forEach of getHistoricalResults: merge today's draws into the history
RECURSIVE MergeToday(_, _, _, _)
MergeToday(persistentHistory, draws, todayStr, added) ==
  IF draws = <<>> THEN [history |-> persistentHistory, added |-> added]
  ELSE LET draw == Head(draws)
           exists == \E i \in 1..Len(persistentHistory) :
                        /\ persistentHistory[i].date = todayStr
                        /\ persistentHistory[i].hour = draw.hour
                        /\ persistentHistory[i].animal = draw.animal
           newEntry == [date |-> todayStr, hour |-> draw.hour, animal |-> draw.animal,
                        number |-> draw.animal, source |-> "LotoVen", timestamp |-> now]
       IN IF draw.animal # Null /\ ~exists
          THEN MergeToday(<<newEntry>> \o persistentHistory, Tail(draws), todayStr, added + 1)
          ELSE MergeToday(persistentHistory, Tail(draws), todayStr, added)

\* records of s that are not in the history old
NewRecords(s, old) == SeqToSet(s) \ SeqToSet(old)

Init ==
  /\ history = [l \in Lotteries |-> <<>>]
  /\ todayCache = [l \in Lotteries |-> NoCache]
  /\ lotovenCache = [l \in Lotteries |-> NoCache]
  /\ massiveLoad = [l \in Lotteries |-> -1]
  /\ now = StartTime
  /\ nops = 0
  /\ result = [op |-> "init", lottery |-> Null]
  /\ reported = [l \in Lotteries |-> {}]
  /\ predictionCache = [l \in Lotteries |-> NoPrediction]
  /\ pending = [l \in Lotteries |-> NoCall]

\* texts under the history key that are no JSON array of entries: one that
\* JSON.parse throws on and one that parses to a value that is no array.
\* They are written as one-entry sequences that no operation stores.
BlobEntry(form) ==
  [date |-> 0, hour |-> 0, animal |-> Null, number |-> Null, source |-> form,
   timestamp |-> 0]
Unparsable == << BlobEntry("unparsable") >>
NotAnArray == << BlobEntry("not an array") >>

\* variant: the stored text handed on as it is
getPersistentHistoryUnchecked(l) == history[l]

\* RealResultsService.getPersistentHistory: nothing stored gives [], a text
\* JSON.parse throws on gives [] in the catch, a value that is no array gives []
getPersistentHistory(l) ==
  IF history[l] = <<>> THEN <<>>
  ELSE IF history[l] = Unparsable THEN <<>>
  ELSE IF history[l] = NotAnArray THEN <<>>
  ELSE history[l]

\* variant: only the entries of today are written back
MergedResultsSavingToday(l, persistentHistory, today, wok) ==
  LET Merged(m) ==
        [saved |-> IF m.added > 0 /\ wok
                   THEN SelectSeq(m.history, LAMBDA h : h.date = TodayStr(now))
                   ELSE history[l],
         today |-> today.today,
         lotoven |-> today.lotoven,
         newRecords |-> NewRecords(m.history, persistentHistory),
         response |-> [success |-> TRUE, draws |-> today.draws,
                       history |-> SortHistory(m.history), added |-> m.added,
                       totalResults |-> Len(m.history), date |-> TodayStr(now),
                       fetched |-> today.fetched]]
  IN Merged(MergeToday(persistentHistory, today.draws, TodayStr(now), 0))

\* getHistoricalResults from the answer today of getTodayResults on, against
\* the history read at persistentHistory (line 92, before the await); wok is
\* whether localStorage.setItem succeeds.  Gives the values written and the
\* response returned: the history is saved when records were added, before
\* it is sorted, and the response carries the sorted copy.
MergedResults(l, persistentHistory, today, wok) ==
  LET Merged(m) ==
        [saved |-> IF m.added > 0 /\ wok THEN m.history ELSE history[l],
         today |-> today.today,
         lotoven |-> today.lotoven,
         newRecords |-> NewRecords(m.history, persistentHistory),
         response |-> [success |-> TRUE, draws |-> today.draws,
                       history |-> SortHistory(m.history), added |-> m.added,
                       totalResults |-> Len(m.history), date |-> TodayStr(now),
                       fetched |-> today.fetched]]
  IN Merged(MergeToday(persistentHistory, today.draws, TodayStr(now), 0))

\* getHistoricalResults run without another handler in between; raw is what
\* the page holds when the fetch is made
HistoricalResults(l, persistentHistory, raw, wok) ==
  MergedResults(l, persistentHistory, getTodayResults(l, raw, wok), wok)

\* the writes and the return of getHistoricalResults
FinishHistoricalResults(l, r) ==
  /\ history' = [history EXCEPT ![l] = r.saved]
  /\ todayCache' = [todayCache EXCEPT ![l] = r.today]
  /\ lotovenCache' = [lotovenCache EXCEPT ![l] = r.lotoven]
  /\ reported' = [reported EXCEPT ![l] = @ \cup r.newRecords]
  /\ result' = [op |-> "getHistoricalResults", lottery |-> l] @@ r.response

getHistoricalResults(l, raw, wok) ==
  /\ nops < MaxOps
  /\ nops' = nops + 1
  /\ FinishHistoricalResults(l, HistoricalResults(l, getPersistentHistory(l), raw, wok))
  /\ UNCHANGED <<massiveLoad, now, predictionCache, pending>>

\* getHistoricalResults up to the network fetch it suspends on: the history
\* is read (line 92) and both caches have been found expired
BeginHistoricalResults(l) ==
  /\ nops < MaxOps
  /\ ~pending[l].active
  /\ ~Unexpired(todayCache[l], CACHE_DURATION)
  /\ ~Unexpired(lotovenCache[l], LOTOVEN_CACHE_DURATION)
  /\ nops' = nops + 1
  /\ pending' = [pending EXCEPT ![l].active = TRUE,
                                ![l].persistentHistory = getPersistentHistory(l)]
  /\ result' = [op |-> "fetch", lottery |-> l]
  /\ UNCHANGED <<history, todayCache, lotovenCache, massiveLoad, now, reported,
                 predictionCache>>

\* the same call from the answer of the fetch on
ResumeHistoricalResults(l, raw, wok) ==
  /\ pending[l].active
  /\ FinishHistoricalResults(l,
        MergedResults(l, pending[l].persistentHistory,
          FetchedTodayResults(l, FetchedResults(l, uniqueDraws(raw), wok), wok), wok))
  /\ pending' = [pending EXCEPT ![l].active = FALSE, ![l].persistentHistory = <<>>]
  /\ UNCHANGED <<massiveLoad, now, nops, predictionCache>>

\* RealResultsService.findAnimalByNumber
findAnimalByNumber(number) == IF number \in animalMap THEN number ELSE Null

\* pages of the archive as LoteriaDehoyService.obtenerResultados and
\* convertirAFormatoApp deliver them: at most MaxBatch rows, in page order
RECURSIVE RowSeqs(_)
RowSeqs(n) ==
  IF n = 0 THEN { <<>> }
  ELSE LET shorter == RowSeqs(n - 1)
       IN shorter \cup { Append(s, r) : s \in { t \in shorter : Len(t) = n - 1 },
                                         r \in ArchiveRows }

\* variant: the for loop looking for an existing entry only among the records
\* that were stored before the batch
RECURSIVE MergeItemsStale(_, _, _, _)
MergeItemsStale(stored, existingHistory, items, c) ==
  IF items = <<>> THEN [history |-> existingHistory, loaded |-> c.loaded,
                        duplicates |-> c.duplicates, errors |-> c.errors]
  ELSE LET item == Head(items)
           exists == \E i \in 1..Len(stored) :
                        /\ stored[i].date = item.date
                        /\ stored[i].hour = item.time
                        /\ stored[i].number = item.animalNumber
           animal == findAnimalByNumber(item.animalNumber)
           newEntry == [date |-> item.date, hour |-> item.time, animal |-> animal,
                        number |-> item.animalNumber, source |-> "LoteriaDehoy",
                        timestamp |-> now]
       IN IF exists
          THEN MergeItemsStale(stored, existingHistory, Tail(items),
                               [c EXCEPT !.duplicates = @ + 1])
          ELSE IF animal = Null
          THEN MergeItemsStale(stored, existingHistory, Tail(items),
                               [c EXCEPT !.errors = @ + 1])
          ELSE MergeItemsStale(stored, Append(existingHistory, newEntry), Tail(items),
                               [c EXCEPT !.loaded = @ + 1])

MergeItemsAgainstStored(existingHistory, items, c) ==
  MergeItemsStale(existingHistory, existingHistory, items, c)

\* the for loop of loadMassiveHistoricalData (every item carries the
\* requested lotteryType, so the lotteryType test never skips)
RECURSIVE MergeItems(_, _, _)
MergeItems(existingHistory, items, c) ==
  IF items = <<>> THEN [history |-> existingHistory, loaded |-> c.loaded,
                        duplicates |-> c.duplicates, errors |-> c.errors]
  ELSE LET item == Head(items)
           exists == \E i \in 1..Len(existingHistory) :
                        /\ existingHistory[i].date = item.date
                        /\ existingHistory[i].hour = item.time
                        /\ existingHistory[i].number = item.animalNumber
           animal == findAnimalByNumber(item.animalNumber)
           newEntry == [date |-> item.date, hour |-> item.time, animal |-> animal,
                        number |-> item.animalNumber, source |-> "LoteriaDehoy",
                        timestamp |-> now]
       IN IF exists
          THEN MergeItems(existingHistory, Tail(items),
                          [c EXCEPT !.duplicates = @ + 1])
          ELSE IF animal = Null
          THEN MergeItems(existingHistory, Tail(items), [c EXCEPT !.errors = @ + 1])
          ELSE MergeItems(Append(existingHistory, newEntry), Tail(items),
                          [c EXCEPT !.loaded = @ + 1])

\* loadMassiveHistoricalData from the answer of the archive on
FinishMassiveLoad(l, items, wok) ==
  IF Len(items) = 0
  THEN /\ result' = [op |-> "loadMassiveHistoricalData", lottery |-> l,
                     success |-> FALSE, loaded |-> 0, duplicates |-> 0, errors |-> 0,
                     fetched |-> TRUE]
       /\ UNCHANGED <<history, massiveLoad, reported>>
  ELSE LET Finish(m) ==
          IF wok
          THEN /\ history' = [history EXCEPT ![l] = SortHistory(m.history)]
               /\ massiveLoad' = [massiveLoad EXCEPT ![l] = now]
               /\ reported' = [reported EXCEPT ![l] = @ \cup NewRecords(m.history,
                                                                  getPersistentHistory(l))]
               /\ result' = [op |-> "loadMassiveHistoricalData", lottery |-> l,
                             success |-> TRUE, loaded |-> m.loaded,
                             duplicates |-> m.duplicates, errors |-> m.errors,
                             fetched |-> TRUE]
          \* savePersistentHistory swallows the failed write, the setItem of the
          \* marker throws into the outer catch
          ELSE /\ result' = [op |-> "loadMassiveHistoricalData", lottery |-> l,
                             success |-> FALSE, loaded |-> 0, duplicates |-> 0,
                             errors |-> 1, fetched |-> TRUE]
               /\ UNCHANGED <<history, massiveLoad, reported>>
       IN Finish(MergeItems(getPersistentHistory(l), items,
                            [loaded |-> 0, duplicates |-> 0, errors |-> 0]))

\* the marker test at the head of loadMassiveHistoricalData
LoadedRecently(l) ==
  /\ massiveLoad[l] # -1
  /\ now - massiveLoad[l] < MASSIVE_LOAD_DAYS * MinutesPerDay

loadMassiveHistoricalData(l, items, wok) ==
  /\ nops < MaxOps
  /\ nops' = nops + 1
  /\ IF LoadedRecently(l)
     THEN /\ result' = [op |-> "loadMassiveHistoricalData", lottery |-> l,
                        success |-> TRUE, loaded |-> 0, duplicates |-> 0, errors |-> 0,
                        fetched |-> FALSE]
          /\ UNCHANGED <<history, massiveLoad, reported>>
     ELSE FinishMassiveLoad(l, items, wok)
  /\ UNCHANGED <<todayCache, lotovenCache, now, predictionCache, pending>>

\* loadMassiveHistoricalData up to the archive fetch it suspends on: the
\* marker has been read and found absent or older than 7 days
BeginMassiveLoad(l) ==
  /\ nops < MaxOps
  /\ ~LoadedRecently(l)
  /\ nops' = nops + 1
  /\ pending' = [pending EXCEPT ![l].loads = @ + 1]
  /\ result' = [op |-> "obtenerResultados", lottery |-> l]
  /\ UNCHANGED <<history, todayCache, lotovenCache, massiveLoad, now, reported,
                 predictionCache>>

\* the same call from the answer of the archive on: the history is read
\* after the await, the marker is not read again
ResumeMassiveLoad(l, items, wok) ==
  /\ pending[l].loads > 0
  /\ FinishMassiveLoad(l, items, wok)
  /\ pending' = [pending EXCEPT ![l].loads = @ - 1]
  /\ UNCHANGED <<todayCache, lotovenCache, now, nops, predictionCache>>

\* variant: the existence test of the automatic merge, entity included
addManualResultByEntity(l, date, hour, animal, wok) ==
  LET hist == getPersistentHistory(l)
      exists == \E i \in 1..Len(hist) : hist[i].date = date /\ hist[i].hour = hour
                                      /\ hist[i].animal = animal
      newEntry == [date |-> date, hour |-> hour, animal |-> animal, number |-> animal,
                   source |-> "Manual", timestamp |-> now]
  IN /\ nops < MaxOps
     /\ nops' = nops + 1
     /\ IF exists
        THEN /\ result' = [op |-> "addManualResult", lottery |-> l, date |-> date,
                           hour |-> hour, animal |-> animal, success |-> FALSE]
             /\ UNCHANGED <<history, reported>>
        ELSE /\ history' = IF wok THEN [history EXCEPT ![l] = <<newEntry>> \o hist]
                           ELSE history
             /\ reported' = [reported EXCEPT ![l] = @ \cup {newEntry}]
             /\ result' = [op |-> "addManualResult", lottery |-> l, date |-> date,
                           hour |-> hour, animal |-> animal, success |-> TRUE]
     /\ UNCHANGED <<todayCache, lotovenCache, massiveLoad, now, predictionCache, pending>>

\* variant: only an earlier manual record blocks the slot
addManualResultOverAutomatic(l, date, hour, animal, wok) ==
  LET hist == getPersistentHistory(l)
      exists == \E i \in 1..Len(hist) : hist[i].date = date /\ hist[i].hour = hour
                                      /\ hist[i].source = "Manual"
      newEntry == [date |-> date, hour |-> hour, animal |-> animal, number |-> animal,
                   source |-> "Manual", timestamp |-> now]
  IN /\ nops < MaxOps
     /\ nops' = nops + 1
     /\ IF exists
        THEN /\ result' = [op |-> "addManualResult", lottery |-> l, date |-> date,
                           hour |-> hour, animal |-> animal, success |-> FALSE]
             /\ UNCHANGED <<history, reported>>
        ELSE /\ history' = IF wok THEN [history EXCEPT ![l] = <<newEntry>> \o hist]
                           ELSE history
             /\ reported' = [reported EXCEPT ![l] = @ \cup {newEntry}]
             /\ result' = [op |-> "addManualResult", lottery |-> l, date |-> date,
                           hour |-> hour, animal |-> animal, success |-> TRUE]
     /\ UNCHANGED <<todayCache, lotovenCache, massiveLoad, now, predictionCache, pending>>

addManualResult(l, date, hour, animal, wok) ==
  LET hist == getPersistentHistory(l)
      exists == \E i \in 1..Len(hist) : hist[i].date = date /\ hist[i].hour = hour
      newEntry == [date |-> date, hour |-> hour, animal |-> animal, number |-> animal,
                   source |-> "Manual", timestamp |-> now]
  IN /\ nops < MaxOps
     /\ nops' = nops + 1
     /\ IF exists
        THEN /\ result' = [op |-> "addManualResult", lottery |-> l, date |-> date,
                           hour |-> hour, animal |-> animal, success |-> FALSE]
             /\ UNCHANGED <<history, reported>>
        ELSE /\ history' = IF wok THEN [history EXCEPT ![l] = <<newEntry>> \o hist]
                           ELSE history
             /\ reported' = [reported EXCEPT ![l] = @ \cup {newEntry}]
             /\ result' = [op |-> "addManualResult", lottery |-> l, date |-> date,
                           hour |-> hour, animal |-> animal, success |-> TRUE]
     /\ UNCHANGED <<todayCache, lotovenCache, massiveLoad, now, predictionCache, pending>>

\* dates the manual entry point is called with
ManualDates == {TodayStr(now)}

\* the keys of localStorage the services write: a prefix, "_" and the lottery
HISTORY_CACHE_KEY ==
  <<"r", "e", "a", "l", "_", "h", "i", "s", "t", "o", "r", "y", "_", "p", "e", "r", "s", "i", "s", "t", "e", "n", "t", "_", "v", "1">>
RESULTS_CACHE_KEY ==
  <<"r", "e", "a", "l", "_", "r", "e", "s", "u", "l", "t", "s", "_", "t", "o", "d", "a", "y", "_", "v", "1">>
LOTOVEN_CACHE_KEY ==
  <<"l", "o", "t", "o", "v", "e", "n", "_", "r", "e", "s", "u", "l", "t", "s", "_", "v", "2">>
PREDICTION_CACHE_KEY ==
  <<"s", "t", "a", "t", "i", "s", "t", "i", "c", "a", "l", "_", "p", "r", "e", "d", "i", "c", "t", "i", "o", "n", "s", "_", "v", "1">>
MASSIVE_LOAD_KEY ==
  <<"m", "a", "s", "s", "i", "v", "e", "_", "l", "o", "a", "d">>
LotteryText(l) ==
  IF l = "GUACHARO" THEN <<"G", "U", "A", "C", "H", "A", "R", "O">>
  ELSE <<"L", "O", "T", "T", "O", "_", "A", "C", "T", "I", "V", "O">>
KeyOf(prefix, l) == prefix \o <<"_">> \o LotteryText(l)

\* variant: only the first word of the prefix is compared
startsWithFirstWord(key, prefix) ==
  /\ 5 <= Len(key)
  /\ SubSeq(key, 1, 5) = SubSeq(prefix, 1, 5)

\* String.prototype.startsWith
startsWith(key, prefix) ==
  /\ Len(prefix) <= Len(key)
  /\ SubSeq(key, 1, Len(prefix)) = prefix

\* localStorage.removeItem on every key that Removed holds of
RemoveItems(Removed(_)) ==
  /\ history' = [k \in Lotteries |->
                   IF Removed(KeyOf(HISTORY_CACHE_KEY, k)) THEN <<>> ELSE history[k]]
  /\ todayCache' = [k \in Lotteries |->
                      IF Removed(KeyOf(RESULTS_CACHE_KEY, k)) THEN NoCache ELSE todayCache[k]]
  /\ lotovenCache' = [k \in Lotteries |->
                        IF Removed(KeyOf(LOTOVEN_CACHE_KEY, k)) THEN NoCache
                        ELSE lotovenCache[k]]
  /\ massiveLoad' = [k \in Lotteries |->
                       IF Removed(KeyOf(MASSIVE_LOAD_KEY, k)) THEN -1 ELSE massiveLoad[k]]
  /\ predictionCache' = [k \in Lotteries |->
                           IF Removed(KeyOf(PREDICTION_CACHE_KEY, k)) THEN NoPrediction
                           ELSE predictionCache[k]]

\* clearTodayCache(lotteryId?): Null stands for the call without an argument
clearTodayCache(l) ==
  /\ nops < MaxOps
  /\ nops' = nops + 1
  /\ IF l # Null
     THEN RemoveItems(LAMBDA key : key = KeyOf(RESULTS_CACHE_KEY, l))
     ELSE RemoveItems(LAMBDA key : startsWith(key, RESULTS_CACHE_KEY))
  /\ result' = [op |-> "clearTodayCache", lottery |-> l]
  /\ UNCHANGED <<now, reported, pending>>

\* PredictionService.clearCache
clearCache ==
  /\ nops < MaxOps
  /\ nops' = nops + 1
  /\ RemoveItems(LAMBDA key : startsWith(key, PREDICTION_CACHE_KEY))
  /\ result' = [op |-> "clearCache", lottery |-> Null]
  /\ UNCHANGED <<now, reported, pending>>

\* --------------------------------------------------------------- stats ---
\* Array.prototype.sort() of the date strings
RECURSIVE InsertAscending(_, _)
InsertAscending(x, s) ==
  IF s = <<>> THEN <<x>>
  ELSE IF x < Head(s) THEN <<x>> \o s
       ELSE <<Head(s)>> \o InsertAscending(x, Tail(s))

RECURSIVE SortAscending(_)
SortAscending(s) ==
  IF s = <<>> THEN <<>>
  ELSE InsertAscending(s[Len(s)], SortAscending(SubSeq(s, 1, Len(s) - 1)))

\* [...new Set(history.map(h => h.source))]: first occurrences, in order
RECURSIVE DistinctSources(_, _)
DistinctSources(hist, acc) ==
  IF hist = <<>> THEN acc
  ELSE DistinctSources(Tail(hist),
         IF \E i \in 1..Len(acc) : acc[i] = Head(hist).source THEN acc
         ELSE Append(acc, Head(hist).source))

\* history.reduce((latest, current) => current.timestamp > latest.timestamp ? ...)
RECURSIVE ReduceLatest(_, _)
ReduceLatest(hist, latest) ==
  IF hist = <<>> THEN latest
  ELSE ReduceLatest(Tail(hist),
         IF Head(hist).timestamp > latest.timestamp THEN Head(hist) ELSE latest)

\* variant: lastUpdate taken from the first entry of the array
HistoryStatsFirstEntry(hist) ==
  IF Len(hist) = 0
  THEN [totalEntries |-> 0, from |-> "N/A", to |-> "N/A", sources |-> <<>>,
        lastUpdate |-> "Never"]
  ELSE LET dates == SortAscending([i \in 1..Len(hist) |-> hist[i].date])
           lastEntry == Head(hist)
       IN [totalEntries |-> Len(hist), from |-> dates[1], to |-> dates[Len(dates)],
           sources |-> DistinctSources(hist, <<>>),
           lastUpdate |-> lastEntry.timestamp]

\* the return value of getHistoryStats on the history hist
HistoryStats(hist) ==
  IF Len(hist) = 0
  THEN [totalEntries |-> 0, from |-> "N/A", to |-> "N/A", sources |-> <<>>,
        lastUpdate |-> "Never"]
  ELSE LET dates == SortAscending([i \in 1..Len(hist) |-> hist[i].date])
           lastEntry == ReduceLatest(Tail(hist), Head(hist))
       IN [totalEntries |-> Len(hist), from |-> dates[1], to |-> dates[Len(dates)],
           sources |-> DistinctSources(hist, <<>>),
           lastUpdate |-> lastEntry.timestamp]

\* a read: it is not counted among the operations of a run
getHistoryStats(l) ==
  /\ result' = [op |-> "getHistoryStats", lottery |-> l, stats |-> HistoryStats(getPersistentHistory(l))]
  /\ UNCHANGED <<history, todayCache, lotovenCache, massiveLoad, now, nops, reported,
                 predictionCache, pending>>

\* ------------------------------------------------------------ analyzer ---
\* results.slice(-w)
SliceLast(s, w) == SubSeq(s, IF Len(s) > w THEN Len(s) - w + 1 ELSE 1, Len(s))

\* results.filter(r => r.animal.id === animal.id)
OfAnimal(results, id) == SelectSeq(results, LAMBDA r : r.animal = id)

\* isHot: recentFrequency10 > avgFrequency * 1.5, with recentFrequency10 =
\* appearances / window * 100 (0 on an empty window) and avgFrequency =
\* 100 / ANIMALS.length, cleared of the divisions
IsHot(appearances, window) ==
  window > 0 /\ appearances * 2 * Len(ANIMALS) > 3 * window

\* isCold: recentFrequency10 < avgFrequency * 0.5
IsCold(appearances, window) ==
  window = 0 \/ appearances * 2 * Len(ANIMALS) < window

\* variant: the appearances counted from the second result on
calculateFrequencyAnalysisSkippingFirst(results) ==
  [k \in 1..Len(ANIMALS) |->
     LET id == ANIMALS[k]
         animalResults == OfAnimal(Tail(results), id)
         appeared == Len(animalResults) > 0
         lastResult == animalResults[Len(animalResults)]
     IN [animalId |-> id,
         totalAppearances |-> Len(animalResults),
         recentAppearances5 |-> Len(OfAnimal(SliceLast(results, 5), id)),
         recentAppearances10 |-> Len(OfAnimal(SliceLast(results, 10), id)),
         recentAppearances20 |-> Len(OfAnimal(SliceLast(results, 20), id)),
         daysSinceLastAppearance |->
            IF appeared
            THEN (now - lastResult.date * MinutesPerDay) \div MinutesPerDay
            ELSE NEVER_APPEARED,
         lastAppearanceDate |-> IF appeared THEN lastResult.date ELSE Null,
         isHot |-> IsHot(Len(OfAnimal(SliceLast(results, 10), id)),
                         Len(SliceLast(results, 10))),
         isCold |-> IsCold(Len(OfAnimal(SliceLast(results, 10), id)),
                           Len(SliceLast(results, 10)))]]

\* StatisticalAnalysisService.calculateFrequencyAnalysis: one entry per
\* catalog animal (the percentages, which are ratios of these counts, and
\* the flags derived from them are left to the scoring stage)
calculateFrequencyAnalysis(results) ==
  [k \in 1..Len(ANIMALS) |->
     LET id == ANIMALS[k]
         animalResults == OfAnimal(results, id)
         appeared == Len(animalResults) > 0
         lastResult == animalResults[Len(animalResults)]
     IN [animalId |-> id,
         totalAppearances |-> Len(animalResults),
         recentAppearances5 |-> Len(OfAnimal(SliceLast(results, 5), id)),
         recentAppearances10 |-> Len(OfAnimal(SliceLast(results, 10), id)),
         recentAppearances20 |-> Len(OfAnimal(SliceLast(results, 20), id)),
         daysSinceLastAppearance |->
            IF appeared
            THEN (now - lastResult.date * MinutesPerDay) \div MinutesPerDay
            ELSE NEVER_APPEARED,
         lastAppearanceDate |-> IF appeared THEN lastResult.date ELSE Null,
         isHot |-> IsHot(Len(OfAnimal(SliceLast(results, 10), id)),
                         Len(SliceLast(results, 10))),
         isCold |-> IsCold(Len(OfAnimal(SliceLast(results, 10), id)),
                           Len(SliceLast(results, 10)))]]

\* variant: a response without draws of today counts as a failure
getHistoricalDataNeedingDraws(realResults, maxResults) ==
  IF ~realResults.success \/ Len(realResults.history) = 0 \/ Len(realResults.draws) = 0
  THEN [thrown |-> TRUE, results |-> <<>>]
  ELSE [thrown |-> FALSE,
        results |-> IF maxResults > 0
                    THEN SubSeq(realResults.history, 1,
                                Min(maxResults, Len(realResults.history)))
                    ELSE realResults.history]

\* PredictionService.getHistoricalData, from the response of
\* getHistoricalResults on; thrown stands for the exception it throws
getHistoricalData(realResults, maxResults) ==
  IF ~realResults.success \/ Len(realResults.history) = 0
  THEN [thrown |-> TRUE, results |-> <<>>]
  ELSE [thrown |-> FALSE,
        results |-> IF maxResults > 0
                    THEN SubSeq(realResults.history, 1,
                                Min(maxResults, Len(realResults.history)))
                    ELSE realResults.history]

\* DEFAULT_WEIGHTS and a request's customWeights, in hundredths; Absent
\* stands for a key the request does not give
DEFAULT_WEIGHTS ==
  [recentFrequency |-> 50, totalFrequency |-> 30, daysSinceAppearance |-> 20]

Absent == -1
NoWeights ==
  [recentFrequency |-> Absent, totalFrequency |-> Absent, daysSinceAppearance |-> Absent]

\* { ...this.DEFAULT_WEIGHTS, ...customWeights }
SpreadWeights(customWeights) ==
  [k \in DOMAIN DEFAULT_WEIGHTS |->
     IF customWeights[k] = Absent THEN DEFAULT_WEIGHTS[k] ELSE customWeights[k]]

\* Math.max(...values) of a non-empty sequence
MaxOf(values) ==
  CHOOSE m \in { values[i] : i \in DOMAIN values } :
    \A i \in DOMAIN values : values[i] <= m

\* StatisticalAnalysisService.calculatePredictionScores.  The three signals
\* are divided by their maxima (recentFrequency10 and totalFrequency are the
\* appearance counts over one common length, so their ratios are the ratios
\* of the counts) and weighted; the score is kept exact, as the numerator
\* score over the denominator scoreDen that all entries of one run share.
calculatePredictionScores(frequencyAnalysis, weights) ==
  LET Scored(maxRecent, maxTotal, maxDays) ==
        LET dR == IF maxRecent > 0 THEN maxRecent ELSE 1
            dT == IF maxTotal > 0 THEN maxTotal ELSE 1
            dD == IF maxDays > 0 THEN maxDays ELSE 1
        IN [k \in 1..Len(frequencyAnalysis) |->
              LET f == frequencyAnalysis[k]
              IN [animalId |-> f.animalId,
                  score |->
                    (IF maxRecent > 0 THEN f.recentAppearances10 * weights.recentFrequency * dT * dD
                     ELSE 0)
                    + (IF maxTotal > 0 THEN f.totalAppearances * weights.totalFrequency * dR * dD
                       ELSE 0)
                    + (IF maxDays > 0
                       THEN f.daysSinceLastAppearance * weights.daysSinceAppearance * dR * dT
                       ELSE 0),
                  scoreDen |-> dR * dT * dD,
                  rank |-> 0,
                  daysSinceLastAppearance |-> f.daysSinceLastAppearance,
                  category |-> "warm"]]
  IN Scored(MaxOf([k \in 1..Len(frequencyAnalysis) |-> frequencyAnalysis[k].recentAppearances10]),
            MaxOf([k \in 1..Len(frequencyAnalysis) |-> frequencyAnalysis[k].totalAppearances]),
            MaxOf([k \in 1..Len(frequencyAnalysis) |-> frequencyAnalysis[k].daysSinceLastAppearance]))

\* variant: a sort that puts the later of two equal scores first
ScoreBeforeTiesFirst(t, j, i) ==
  \/ t[j].score > t[i].score
  \/ t[j].score = t[i].score /\ j > i

\* the comparator (a, b) => b.score - a.score under the stable sort: entry j
\* of t comes to stand before entry i when its score is greater, or equal
\* with j the earlier of the two
ScoreBefore(t, j, i) ==
  \/ t[j].score > t[i].score
  \/ t[j].score = t[i].score /\ j < i

\* scores.sort((a, b) => b.score - a.score): every entry at the position
\* that the number of entries standing before it gives
SortByScore(s) ==
  LET Place(t, pos) == [p \in 1..Len(t) |-> t[CHOOSE i \in 1..Len(t) : pos[i] = p]]
      Sorted(t) ==
        Place(t, SubSeq([i \in 1..Len(t) |->
                           1 + Cardinality({ j \in 1..Len(t) : ScoreBefore(t, j, i) })],
                        1, Len(t)))
  IN Sorted(SubSeq(s, 1, Len(s)))

\* variant: the category taken from the position counted from 0
CategoryOfRankFromZero(rank) ==
  IF rank - 1 <= 5 THEN "hot"
  ELSE IF rank - 1 <= 15 THEN "warm"
  ELSE IF rank - 1 <= 25 THEN "cold"
  ELSE "frozen"

\* the category that categorizeAnimals gives to a rank
CategoryOfRank(rank) ==
  IF rank <= 5 THEN "hot"
  ELSE IF rank <= 15 THEN "warm"
  ELSE IF rank <= 25 THEN "cold"
  ELSE "frozen"

\* variant: entities with equal scores share a rank
categorizeAnimalsSharingRanks(scores) ==
  LET Ranked(sortedScores) ==
        [i \in 1..Len(sortedScores) |->
           LET rank == IF i > 1 /\ sortedScores[i].score = sortedScores[i - 1].score
                       THEN i - 1 ELSE i
           IN [sortedScores[i] EXCEPT !.rank = rank, !.category = CategoryOfRank(rank)]]
  IN Ranked(SortByScore(scores))

\* variant: ranks given in the order of the catalog, without the sort
categorizeAnimalsUnsorted(scores) ==
  LET Ranked(sortedScores) ==
        [i \in 1..Len(sortedScores) |->
           [sortedScores[i] EXCEPT !.rank = i, !.category = CategoryOfRank(i)]]
  IN Ranked(scores)

\* StatisticalAnalysisService.categorizeAnimals
categorizeAnimals(scores) ==
  LET Ranked(sortedScores) ==
        [i \in 1..Len(sortedScores) |->
           [sortedScores[i] EXCEPT !.rank = i, !.category = CategoryOfRank(i)]]
  IN Ranked(SortByScore(scores))

\* StatisticalAnalysisService.analyzeHistoricalData (top5, top10, hotAnimals
\* and coldAnimals are slices and filters of allAnimals; frequencyAnalysis is
\* the intermediate value, kept so that it can be observed)
analyzeHistoricalData(l, historicalResults, customWeights) ==
  LET Analysed(weights, frequencyAnalysis) ==
        [lotteryId |-> l,
         totalResults |-> Len(historicalResults),
         frequencyAnalysis |-> frequencyAnalysis,
         allAnimals |-> categorizeAnimals(
                          calculatePredictionScores(frequencyAnalysis, weights)),
         weights |-> weights]
  IN Analysed(SpreadWeights(customWeights), calculateFrequencyAnalysis(historicalResults))

\* PredictionService.generatePrediction against the history read at
\* persistentHistory by the getHistoricalResults it calls
FinishPrediction(l, persistentHistory, request, raw, wok) ==
  LET Predicted(historicalData, prediction) ==
        /\ result' = [op |-> "generatePrediction", lottery |-> l, request |-> request,
                      success |-> TRUE, dataSource |-> "real-time",
                      data |-> prediction, analysed |-> historicalData]
        /\ predictionCache' =
             IF wok THEN [predictionCache EXCEPT ![l] =
                            [present |-> TRUE, prediction |-> prediction,
                             timestamp |-> now]]
             ELSE predictionCache
      Loaded(loadedData) ==
        IF loadedData.thrown \/ Len(loadedData.results) = 0
        THEN /\ result' = [op |-> "generatePrediction", lottery |-> l, request |-> request,
                           success |-> FALSE, dataSource |-> "error"]
             /\ UNCHANGED predictionCache
        ELSE Predicted(loadedData.results,
                       analyzeHistoricalData(l, loadedData.results, request.customWeights))
      Finish(r) ==
        /\ history' = [history EXCEPT ![l] = r.saved]
        /\ todayCache' = [todayCache EXCEPT ![l] = r.today]
        /\ lotovenCache' = [lotovenCache EXCEPT ![l] = r.lotoven]
        /\ reported' = [reported EXCEPT ![l] = @ \cup r.newRecords]
        /\ Loaded(getHistoricalData(r.response, request.analysisDepth))
  IN Finish(HistoricalResults(l, persistentHistory, raw, wok))

\* PredictionService.generatePrediction(request), request = [analysisDepth,
\* customWeights] for the lottery l
generatePrediction(l, request, raw, wok) ==
  /\ nops < MaxOps
  /\ nops' = nops + 1
  /\ IF Unexpired(predictionCache[l], PREDICTION_CACHE_DURATION)
     THEN /\ result' = [op |-> "generatePrediction", lottery |-> l, request |-> request,
                        success |-> TRUE,
                        dataSource |-> "cache", data |-> predictionCache[l].prediction]
          /\ UNCHANGED <<history, todayCache, lotovenCache, reported, predictionCache>>
     ELSE FinishPrediction(l, getPersistentHistory(l), request, raw, wok)
  /\ UNCHANGED <<massiveLoad, now, pending>>

\* StatisticalAnalysisService.analyzeHistoricalData called on the history as
\* the store delivers it (getQuickAnalysis); a read, not counted among the
\* operations of a run
analyze(l, customWeights) ==
  /\ result' = [op |-> "analyzeHistoricalData", lottery |-> l,
                analysed |-> SortHistory(history[l]),
                data |-> analyzeHistoricalData(l, SortHistory(history[l]), customWeights)]
  /\ UNCHANGED <<history, todayCache, lotovenCache, massiveLoad, now, nops, reported,
                 predictionCache, pending>>

Advance(d) ==
  /\ nops < MaxOps
  /\ nops' = nops + 1
  /\ now' = now + d
  /\ result' = [op |-> "advance", lottery |-> Null]
  /\ UNCHANGED <<history, todayCache, lotovenCache, massiveLoad, reported, predictionCache,
                 pending>>

\* The store and its operations, called one after the other
Next ==
  \/ \E l \in Lotteries, raw \in RawMatches : getHistoricalResults(l, raw, TRUE)
  \/ \E l \in Lotteries, items \in RowSeqs(MaxBatch) :
        loadMassiveHistoricalData(l, items, TRUE)
  \/ \E l \in Lotteries, date \in ManualDates, hour \in PageHours, animal \in PageAnimals :
        addManualResult(l, date, hour, animal, TRUE)
  \/ \E l \in Lotteries : getHistoryStats(l)
  \/ \E l \in Lotteries \cup {Null} : clearTodayCache(l)
  \/ \E d \in AdvanceSteps : Advance(d)

Spec == Init /\ [][Next]_vars

\* the lottery selected in the Dashboard
SelectedLottery == "GUACHARO"

\* The prediction pipeline over the selected lottery: the analyzer reads the
\* history that the store operations of that lottery have built

NextPredict ==
  \/ \E depth \in AnalysisDepths, raw \in RawMatches :
        generatePrediction(SelectedLottery,
                           [analysisDepth |-> depth, customWeights |-> NoWeights], raw, TRUE)
  \/ \E raw \in RawMatches : getHistoricalResults(SelectedLottery, raw, TRUE)
  \/ \E items \in RowSeqs(MaxBatch) :
        loadMassiveHistoricalData(SelectedLottery, items, TRUE)
  \/ \E date \in ManualDates, hour \in PageHours, animal \in PageAnimals :
        addManualResult(SelectedLottery, date, hour, animal, TRUE)
  \/ \E d \in AdvanceSteps : Advance(d)

SpecPredict == Init /\ [][NextPredict]_vars

\* histories of the n draws before today, one a day, most recent first, as
\* backfills of earlier sessions have stored them
RECURSIVE StoredHistories(_)
StoredHistories(n) ==
  IF n = 0 THEN { <<>> }
  ELSE LET shorter == StoredHistories(n - 1)
       IN shorter \cup
          { Append(h, [date |-> TodayStr(StartTime) - n, hour |-> 9, animal |-> a,
                       number |-> a, source |-> "LoteriaDehoy", timestamp |-> 0]) :
              h \in { t \in shorter : Len(t) = n - 1 }, a \in PageAnimals }

\* a session that starts on a history stored earlier
InitStored ==
  /\ history \in [Lotteries -> StoredHistories(MaxHistory)]
  /\ \A l \in Lotteries \ {SelectedLottery} : history[l] = <<>>
  /\ todayCache = [l \in Lotteries |-> NoCache]
  /\ lotovenCache = [l \in Lotteries |-> NoCache]
  /\ massiveLoad = [l \in Lotteries |-> -1]
  /\ now = StartTime
  /\ nops = 0
  /\ result = [op |-> "init", lottery |-> Null]
  /\ reported = [l \in Lotteries |-> {}]
  /\ predictionCache = [l \in Lotteries |-> NoPrediction]
  /\ pending = [l \in Lotteries |-> NoCall]

\* requests of the analysis screen
CustomWeightSets ==
  { NoWeights,
    [recentFrequency |-> 0, totalFrequency |-> Absent, daysSinceAppearance |-> 80] }
Requests == [analysisDepth : AnalysisDepths, customWeights : CustomWeightSets]

\* pages holding at most one draw
ShortPages == { raw \in RawMatches : Len(raw) <= 1 }

\* The prediction requests of the selected lottery over a stored history
NextAnalyze ==
  \/ \E request \in Requests, raw \in ShortPages :
        generatePrediction(SelectedLottery, request, raw, TRUE)
  \/ \E d \in AdvanceSteps : Advance(d)

SpecAnalyze == InitStored /\ [][NextAnalyze]_vars

\* The analyzer and the scoring applied to a stored history
NextScore ==
  \E customWeights \in CustomWeightSets : analyze(SelectedLottery, customWeights)

SpecScore == InitStored /\ [][NextScore]_vars

\* stored histories of about MIN_HISTORY_REQUIRED draws: the most recent
\* draws of one entity, the earlier ones of the other
MIN_HISTORY_REQUIRED == 10
SufficientHistories ==
  { h \in StoredHistories(MIN_HISTORY_REQUIRED + 1) :
      /\ Len(h) >= MIN_HISTORY_REQUIRED - 1
      /\ \A i \in 1..(Len(h) - 1) : h[i].animal = "06" => h[i + 1].animal = "06" }

InitSufficient ==
  /\ history \in [Lotteries -> SufficientHistories \cup { <<>> }]
  /\ history[SelectedLottery] # <<>>
  /\ \A l \in Lotteries \ {SelectedLottery} : history[l] = <<>>
  /\ todayCache = [l \in Lotteries |-> NoCache]
  /\ lotovenCache = [l \in Lotteries |-> NoCache]
  /\ massiveLoad = [l \in Lotteries |-> -1]
  /\ now = StartTime
  /\ nops = 0
  /\ result = [op |-> "init", lottery |-> Null]
  /\ reported = [l \in Lotteries |-> {}]
  /\ predictionCache = [l \in Lotteries |-> NoPrediction]
  /\ pending = [l \in Lotteries |-> NoCall]

\* The dashboard of the selected lottery over a stored history while the
\* remote page answers with a draw, with none, or not at all
NextDegraded ==
  \/ \E raw \in ShortPages : getHistoricalResults(SelectedLottery, raw, TRUE)
  \/ \E depth \in AnalysisDepths, raw \in ShortPages :
        generatePrediction(SelectedLottery,
                           [analysisDepth |-> depth, customWeights |-> NoWeights],
                           raw, TRUE)
  \/ \E d \in AdvanceSteps : Advance(d)

SpecDegraded == InitSufficient /\ [][NextDegraded]_vars

\* ------------------------------------------------ text of a page ---------
\* a text is a sequence of one-character strings
AsciiLower == <<"a", "b", "c", "d", "e", "f", "g", "h", "i", "j", "k", "l", "m", "n", "o", "p", "q", "r", "s", "t", "u", "v", "w", "x", "y", "z">>
AsciiUpper == <<"A", "B", "C", "D", "E", "F", "G", "H", "I", "J", "K", "L", "M", "N", "O", "P", "Q", "R", "S", "T", "U", "V", "W", "X", "Y", "Z">>
Digits == <<"0", "1", "2", "3", "4", "5", "6", "7", "8", "9">>
AccentLower == <<"á", "é", "í", "ó", "ú", "ñ", "ü">>
AccentUpper == <<"Á", "É", "Í", "Ó", "Ú", "Ñ", "Ü">>
\* the letter each accented letter decomposes to (NFD) once its mark is removed
AccentBase == <<"a", "e", "i", "o", "u", "n", "u">>

\* the characters \w and \b of a regular expression count as word characters
WordChars == SeqToSet(AsciiLower) \cup SeqToSet(AsciiUpper) \cup SeqToSet(Digits) \cup {"_"}
DigitChars == SeqToSet(Digits)

\* String.prototype.toLowerCase, on one character and on a text
LowerChar(c) ==
  IF \E i \in DOMAIN AsciiUpper : AsciiUpper[i] = c
  THEN AsciiLower[CHOOSE i \in DOMAIN AsciiUpper : AsciiUpper[i] = c]
  ELSE IF \E i \in DOMAIN AccentUpper : AccentUpper[i] = c
       THEN AccentLower[CHOOSE i \in DOMAIN AccentUpper : AccentUpper[i] = c]
       ELSE c
toLowerCase(text) == [i \in DOMAIN text |-> LowerChar(text[i])]

\* names of the catalog entries, in the order of their codes 00..36
AnimalNames ==
  << <<"D", "e", "l", "f", "í", "n">>,
     <<"C", "a", "r", "n", "e", "r", "o">>,
     <<"T", "o", "r", "o">>,
     <<"C", "i", "e", "m", "p", "i", "é", "s">>,
     <<"A", "l", "a", "c", "r", "á", "n">>,
     <<"L", "e", "ó", "n">>,
     <<"R", "a", "n", "a">>,
     <<"P", "e", "r", "i", "c", "o">>,
     <<"R", "a", "t", "ó", "n">>,
     <<"Á", "g", "u", "i", "l", "a">>,
     <<"T", "i", "g", "r", "e">>,
     <<"G", "a", "t", "o">>,
     <<"C", "a", "b", "a", "l", "l", "o">>,
     <<"M", "o", "n", "o">>,
     <<"P", "a", "l", "o", "m", "a">>,
     <<"Z", "o", "r", "r", "o">>,
     <<"O", "s", "o">>,
     <<"P", "a", "v", "o">>,
     <<"B", "u", "r", "r", "o">>,
     <<"C", "h", "i", "v", "o">>,
     <<"C", "o", "c", "h", "i", "n", "o">>,
     <<"G", "a", "l", "l", "o">>,
     <<"C", "a", "m", "e", "l", "l", "o">>,
     <<"C", "e", "b", "r", "a">>,
     <<"I", "g", "u", "a", "n", "a">>,
     <<"G", "a", "l", "l", "i", "n", "a">>,
     <<"V", "a", "c", "a">>,
     <<"P", "e", "r", "r", "o">>,
     <<"Z", "a", "m", "u", "r", "o">>,
     <<"E", "l", "e", "f", "a", "n", "t", "e">>,
     <<"C", "a", "i", "m", "á", "n">>,
     <<"L", "a", "p", "a">>,
     <<"A", "r", "d", "i", "l", "l", "a">>,
     <<"P", "e", "s", "c", "a", "d", "o">>,
     <<"V", "e", "n", "a", "d", "o">>,
     <<"J", "i", "r", "a", "f", "a">>,
     <<"C", "u", "l", "e", "b", "r", "a">> >>

\* animal.number of the i-th catalog entry as text
NumberText(i) == << Digits[((i - 1) \div 10) + 1], Digits[((i - 1) % 10) + 1] >>

\* \b before position i of html: exactly one of the characters around it is a
\* word character
WordAt(html, i) == i \in 1..Len(html) /\ html[i] \in WordChars
WordBoundary(html, i) == WordAt(html, i - 1) # WordAt(html, i)
DigitAt(html, i) == i \in 1..Len(html) /\ html[i] \in DigitChars
CharAt(html, i, c) == i \in 1..Len(html) /\ html[i] = c

\* the literal pattern stands at position i of html (flag i: letters compared
\* without case)
LiteralAt(html, pattern, i, ignoreCase) ==
  /\ i + Len(pattern) - 1 <= Len(html)
  /\ \A k \in 1..Len(pattern) :
       IF ignoreCase THEN LowerChar(html[i + k - 1]) = LowerChar(pattern[k])
       ELSE html[i + k - 1] = pattern[k]

\* positions of the matches of new RegExp(`\\b${pattern}\\b`, 'g') in html
WordMatches(html, pattern, ignoreCase) ==
  { i \in 1..Len(html) : /\ WordBoundary(html, i)
                         /\ LiteralAt(html, pattern, i, ignoreCase)
                         /\ WordBoundary(html, i + Len(pattern)) }

\* length of the match of /\b(\d{1,2}:\d{2})\b/ that starts at position i,
\* 0 when there is none; two digits are tried before one
HourLengthAt(html, i) ==
  IF /\ WordBoundary(html, i)
     /\ DigitAt(html, i) /\ DigitAt(html, i + 1) /\ CharAt(html, i + 2, ":")
     /\ DigitAt(html, i + 3) /\ DigitAt(html, i + 4) /\ WordBoundary(html, i + 5)
  THEN 5
  ELSE IF /\ WordBoundary(html, i)
          /\ DigitAt(html, i) /\ CharAt(html, i + 1, ":")
          /\ DigitAt(html, i + 2) /\ DigitAt(html, i + 3) /\ WordBoundary(html, i + 4)
       THEN 4
       ELSE 0

\* html.match(/\b(\d{1,2}:\d{2})\b/g): the matches from position i on, left to
\* right, each search resuming after the match before it
RECURSIVE hourMatchesFrom(_, _)
hourMatchesFrom(html, i) ==
  LET starts == { j \in i..Len(html) : HourLengthAt(html, j) > 0 }
  IN IF starts = {} THEN <<>>
     ELSE LET Resume(j) == << [position |-> j,
                               text |-> SubSeq(html, j, j + HourLengthAt(html, j) - 1)] >>
                           \o hourMatchesFrom(html, j + HourLengthAt(html, j))
          IN Resume(CHOOSE j \in starts : \A k \in starts : j <= k)
hourMatches(html) == hourMatchesFrom(html, 1)

\* animalMatches then numberMatches of aggressiveHTMLParse: list 1 holds the
\* occurrences of every catalog name, list 2 those of every catalog number,
\* each list in catalog order and, for one entry, in text order
animalMatches(html) ==
  UNION { { [list |-> 1, order |-> i, position |-> p, animal |-> ANIMALS[i]] :
              p \in WordMatches(html, toLowerCase(AnimalNames[i]), TRUE) } :
          i \in DOMAIN ANIMALS }
numberMatches(html) ==
  UNION { { [list |-> 2, order |-> i, position |-> p, animal |-> ANIMALS[i]] :
              p \in WordMatches(html, NumberText(i), FALSE) } :
          i \in DOMAIN ANIMALS }

Distance(a, b) == IF a >= b THEN a - b ELSE b - a
PROXIMITY_WINDOW == 200

\* c stands before d in [...animalMatches, ...numberMatches]
StandsBefore(c, d) ==
  \/ c.list < d.list
  \/ c.list = d.list /\ c.order < d.order
  \/ c.list = d.list /\ c.order = d.order /\ c.position < d.position

\* the matches within the window of hourPosition, and the one the forEach of
\* aggressiveHTMLParse keeps: a later match replaces it only when strictly nearer
InWindow(matches, hourPosition) ==
  { c \in matches : Distance(c.position, hourPosition) < PROXIMITY_WINDOW }
closestAnimalOf(matches, hourPosition) ==
  CHOOSE c \in matches :
    \A d \in matches :
      \/ Distance(c.position, hourPosition) < Distance(d.position, hourPosition)
      \/ /\ Distance(c.position, hourPosition) = Distance(d.position, hourPosition)
         /\ (c = d \/ StandsBefore(c, d))

\* `${h.padStart(2, '0')}:${m}` of an hour token
normalizedHourOf(hourStr) == IF Len(hourStr) = 4 THEN <<"0">> \o hourStr ELSE hourStr

\* hourRegex.exec(html).index: the first place the hour token stands as a word
FirstHourPosition(html, hourStr) ==
  LET found == WordMatches(html, hourStr, FALSE)
  IN IF found = {} THEN 0 ELSE CHOOSE p \in found : \A q \in found : p <= q

\* hourMatches.forEach of aggressiveHTMLParse from the k-th hour token on
RECURSIVE correlateHours(_, _, _, _, _)
correlateHours(html, hours, k, matches, draws) ==
  IF k > Len(hours) THEN draws
  ELSE LET Paired(hourPosition) ==
             IF hourPosition = 0 \/ InWindow(matches, hourPosition) = {}
                \/ \E n \in DOMAIN draws : draws[n].hour = normalizedHourOf(hours[k].text)
             THEN draws
             ELSE Append(draws,
                    [hour |-> normalizedHourOf(hours[k].text),
                     animal |-> closestAnimalOf(InWindow(matches, hourPosition),
                                                hourPosition).animal])
       IN correlateHours(html, hours, k + 1, matches,
                         Paired(FirstHourPosition(html, hours[k].text)))

aggressiveHTMLParse(html) ==
  correlateHours(html, hourMatches(html), 1,
                 animalMatches(html) \cup numberMatches(html), <<>>)

\* a.localeCompare(b) < 0 on hour texts of the form HH:MM
RECURSIVE TextBefore(_, _)
TextBefore(a, b) ==
  IF b = <<>> THEN FALSE
  ELSE IF a = <<>> THEN TRUE
  ELSE IF Head(a) = Head(b) THEN TextBefore(Tail(a), Tail(b))
  ELSE \E i, j \in DOMAIN Digits : i < j /\ Digits[i] = Head(a) /\ Digits[j] = Head(b)

\* the final filter and sort of parseHTML: first draw of each hour, by hour
RECURSIVE InsertByHourText(_, _)
InsertByHourText(sorted, draw) ==
  IF sorted = <<>> THEN << draw >>
  ELSE IF TextBefore(draw.hour, Head(sorted).hour) THEN << draw >> \o sorted
  ELSE << Head(sorted) >> \o InsertByHourText(Tail(sorted), draw)
RECURSIVE SortByHourText(_)
SortByHourText(draws) ==
  IF draws = <<>> THEN <<>>
  ELSE InsertByHourText(SortByHourText(SubSeq(draws, 1, Len(draws) - 1)), draws[Len(draws)])
FirstOfEachHour(draws) ==
  SelectSeq([n \in DOMAIN draws |-> [draw |-> draws[n],
               first |-> \A k \in 1..(n - 1) : draws[k].hour # draws[n].hour]],
            LAMBDA e : e.first)
uniqueHourDraws(draws) ==
  LET Drawn(kept) == [n \in DOMAIN kept |-> kept[n].draw]
  IN SortByHourText(Drawn(FirstOfEachHour(draws)))

\* sections of a page in which the primary pattern of parseHTML matches
\* nothing: a time token and an entity token a number of blanks apart
Sections ==
  LET TimeTokens ==
        { <<"0", "7", ":", "3", "0">>, <<"7", ":", "4", "5">>,
          <<"0", "8", ":", "4", "5">>, <<"1", "2", ":", "5", "0">> }
      EntityTokens ==
        { <<"L", "e", "ó", "n">>, <<"r", "a", "n", "a">>, <<"0", "5">>, <<>> }
      Gaps == {1, 40, 195, 210}
      Blanks(n) == [i \in 1..n |-> " "]
  IN { t \o Blanks(g) \o e : t \in TimeTokens, g \in Gaps, e \in EntityTokens }
     \cup { e \o Blanks(g) \o t : t \in TimeTokens, g \in Gaps, e \in EntityTokens }

\* ------------------------------------------------ entity resolver -------
\* String.prototype.trim
RECURSIVE trim(_)
trim(text) ==
  IF text = <<>> THEN <<>>
  ELSE IF Head(text) = " " THEN trim(Tail(text))
  ELSE IF text[Len(text)] = " " THEN trim(SubSeq(text, 1, Len(text) - 1))
  ELSE text

\* .normalize("NFD") and the removal of the combining marks, on one
\* lower-case character
BaseChar(c) ==
  IF \E i \in DOMAIN AccentLower : AccentLower[i] = c
  THEN AccentBase[CHOOSE i \in DOMAIN AccentLower : AccentLower[i] = c]
  ELSE c

\* lower case, marks removed, letters a-z only
normalizeText(text) ==
  SelectSeq([i \in DOMAIN text |-> BaseChar(LowerChar(text[i]))],
            LAMBDA c : c \in SeqToSet(AsciiLower))

\* String.prototype.includes
Includes(text, part) ==
  \E i \in 0..(Len(text) - Len(part)) : SubSeq(text, i + 1, i + Len(part)) = part

\* one row of the matrix of levenshteinDistance: the row of character ch of
\* str2, grown column by column from the columns it has so far; above is the
\* row before it (column 0 first).  LevenshteinFrom grows the matrix row by
\* row in the same way, from the rows it has so far.
RECURSIVE LevenshteinRow(_, _, _, _)
LevenshteinRow(above, str1, ch, row) ==
  IF Len(row) > Len(str1) THEN row
  ELSE LevenshteinRow(above, str1, ch,
         Append(row, IF ch = str1[Len(row)] THEN above[Len(row)]
                     ELSE Min(above[Len(row)] + 1,
                              Min(row[Len(row)] + 1, above[Len(row) + 1] + 1))))

RECURSIVE LevenshteinFrom(_, _, _)
LevenshteinFrom(str1, str2, matrix) ==
  IF Len(matrix) > Len(str2) THEN matrix[Len(str2) + 1][Len(str1) + 1]
  ELSE LevenshteinFrom(str1, str2,
         Append(matrix, LevenshteinRow(matrix[Len(matrix)], str1, str2[Len(matrix)],
                                       << Len(matrix) >>)))

levenshteinDistance(str1, str2) ==
  LevenshteinFrom(str1, str2, << [j \in 1..(Len(str1) + 1) |-> j - 1] >>)

\* ANIMALS.find: the first catalog index among found, 0 when there is none
FirstOf(found) == IF found = {} THEN 0 ELSE CHOOSE i \in found : \A k \in found : i <= k
AnimalAt(i) == IF i = 0 THEN Null ELSE ANIMALS[i]

\* cleanInput.match(/\b(\d{1,2})\b/): the digits of the first match, <<>>
\* when there is none
NumberLengthAt(text, i) ==
  IF WordBoundary(text, i) /\ DigitAt(text, i) /\ DigitAt(text, i + 1)
     /\ WordBoundary(text, i + 2)
  THEN 2
  ELSE IF WordBoundary(text, i) /\ DigitAt(text, i) /\ WordBoundary(text, i + 1)
       THEN 1
       ELSE 0
numberMatch(text) ==
  LET At(i) == IF i = 0 THEN <<>> ELSE SubSeq(text, i, i + NumberLengthAt(text, i) - 1)
  IN At(FirstOf({ i \in 1..Len(text) : NumberLengthAt(text, i) > 0 }))

\* step 1: the number of the token, padded to two digits, among the catalog
padStart(num) == IF Len(num) = 1 THEN <<"0">> \o num ELSE num
byNumber(cleanInput) ==
  LET Find(num) == IF num = <<>> THEN Null
                   ELSE AnimalAt(FirstOf({ i \in DOMAIN ANIMALS : NumberText(i) = num }))
  IN Find(padStart(numberMatch(cleanInput)))

\* step 5: the catalog entry nearest to normalizedInput among those more than
\* 70% similar, the first of them when several are as near
SIMILARITY_PERCENT == 70
IsSimilar(distance, maxLength) ==
  100 * (maxLength - distance) > SIMILARITY_PERCENT * maxLength
\* the for loop over the catalog: bestMatch is replaced by a similar entry
\* only when its distance is strictly smaller, so the loop ends with the first
\* of the similar entries at the smallest distance
bestMatch(normalizedInput) ==
  LET maxLength(i) ==
        IF Len(normalizedInput) >= Len(normalizeText(AnimalNames[i]))
        THEN Len(normalizedInput) ELSE Len(normalizeText(AnimalNames[i]))
      Nearest(distance) ==
        AnimalAt(FirstOf({ i \in DOMAIN ANIMALS :
                             /\ IsSimilar(distance[i], maxLength(i))
                             /\ \A k \in DOMAIN ANIMALS :
                                   IsSimilar(distance[k], maxLength(k))
                                   => distance[i] <= distance[k] }))
  IN Nearest([i \in DOMAIN ANIMALS |->
                levenshteinDistance(normalizedInput, normalizeText(AnimalNames[i]))])

\* steps 3 to 5 on the normalized token
byNormalizedName(normalizedInput) ==
  IF Len(normalizedInput) < 2 THEN Null
  ELSE IF \E i \in DOMAIN ANIMALS : normalizeText(AnimalNames[i]) = normalizedInput
  THEN AnimalAt(FirstOf({ i \in DOMAIN ANIMALS :
                            normalizeText(AnimalNames[i]) = normalizedInput }))
  ELSE IF \E i \in DOMAIN ANIMALS :
            \/ Includes(normalizeText(AnimalNames[i]), normalizedInput)
            \/ Includes(normalizedInput, normalizeText(AnimalNames[i]))
  THEN AnimalAt(FirstOf({ i \in DOMAIN ANIMALS :
                            \/ Includes(normalizeText(AnimalNames[i]), normalizedInput)
                            \/ Includes(normalizedInput, normalizeText(AnimalNames[i])) }))
  ELSE bestMatch(normalizedInput)

\* steps 2 to 5: the exact name without regard to case, then the normalized token
byName(cleanInput) ==
  IF \E i \in DOMAIN ANIMALS : toLowerCase(AnimalNames[i]) = toLowerCase(cleanInput)
  THEN AnimalAt(FirstOf({ i \in DOMAIN ANIMALS :
                            toLowerCase(AnimalNames[i]) = toLowerCase(cleanInput) }))
  ELSE byNormalizedName(normalizeText(cleanInput))

\* LotoVenService.findAnimalByNameOrNumber
findAnimalByNameOrNumberNamesFirst(input) ==
  IF trim(input) = <<>> THEN Null
  ELSE IF byName(trim(input)) # Null THEN byName(trim(input))
  ELSE byNumber(trim(input))
findAnimalByNameOrNumber(input) ==
  IF trim(input) = <<>> THEN Null
  ELSE IF byNumber(trim(input)) # Null THEN byNumber(trim(input))
  ELSE byName(trim(input))

\* tokens the primary pattern of parseHTML hands to the resolver: every
\* number of one or two digits, names as written, misspelt, cut short or
\* decorated, and tokens that name nothing
Tokens ==
  LET NumberTokens ==
        { << d >> : d \in DigitChars } \cup { << d, e >> : d, e \in DigitChars }
      NameTokens ==
        { <<"L", "e", "ó", "n">>, <<"l", "e", "o", "n">>, <<"L", "E", "Ó", "N">>,
          <<" ", "L", "e", "ó", "n", " ">>, <<"L", "e", "ó", "n", " ", "7">>,
          <<"9", "9", " ", "R", "a", "n", "a">>, <<"t", "i", "g", "r", "e", "5">>,
          <<"l", "i", "o", "n">>, <<"a", "l", "l", "o">>, <<"p", "a", "t", "o">>,
          <<"g", "a">>, <<"E", "l", " ", "T", "o", "r", "o">>,
          <<"Á", "g", "u", "i", "l", "a">>, <<"a", "g", "u", "i", "l", "a", "s">>,
          <<"C", "a", "i", "m", "a", "n">>, <<"a">>, <<"?">>, <<"x", "y", "z">>,
          <<"k", "k", "k", "k">>, <<" ">>, <<>> }
  IN NumberTokens \cup NameTokens

\* ------------------------------------------------ primary pattern -------
\* the literal parts of the pattern of parseHTML:
\* <span class="info[^"]*">([^<]+)<\/span>[\s\S]*?
\* <span class="info2 horario"[^>]*>(\d{1,2}:\d{2}\s*(?:AM|PM))<\/span>, flags gi
INFO_OPEN == <<"<", "s", "p", "a", "n", " ", "c", "l", "a", "s", "s", "=", "\"", "i", "n", "f", "o">>
TIME_OPEN == <<"<", "s", "p", "a", "n", " ", "c", "l", "a", "s", "s", "=", "\"", "i", "n", "f", "o", "2", " ", "h", "o", "r", "a", "r", "i", "o", "\"">>
SPAN_CLOSE == <<"<", "/", "s", "p", "a", "n", ">">>

\* the first position from i on at which html holds one of chars, 0 when
\* there is none
FirstCharFrom(html, i, chars) == FirstOf({ p \in i..Len(html) : html[p] \in chars })

\* <span class="info[^"]*"> at position i: the position after it, 0 when it
\* does not stand there
AfterInfoOpen(html, i) ==
  LET Closed(q) == IF q # 0 /\ CharAt(html, q + 1, ">") THEN q + 2 ELSE 0
  IN IF i >= 1 /\ LiteralAt(html, INFO_OPEN, i, TRUE)
     THEN Closed(FirstCharFrom(html, i + Len(INFO_OPEN), {"\""}))
     ELSE 0

\* ([^<]+)<\/span> from position s on: the position of the closing tag, 0
\* when the capture is empty or another tag follows it
InfoCloseFrom(html, s) ==
  LET Closed(p) == IF p > s /\ LiteralAt(html, SPAN_CLOSE, p, TRUE) THEN p ELSE 0
  IN IF s = 0 THEN 0 ELSE Closed(FirstCharFrom(html, s, {"<"}))

\* length of \d{1,2}:\d{2} at position t, 0 when it does not stand there
ClockLengthAt(html, t) ==
  IF /\ DigitAt(html, t) /\ DigitAt(html, t + 1) /\ CharAt(html, t + 2, ":")
     /\ DigitAt(html, t + 3) /\ DigitAt(html, t + 4)
  THEN 5
  ELSE IF /\ DigitAt(html, t) /\ CharAt(html, t + 1, ":")
          /\ DigitAt(html, t + 2) /\ DigitAt(html, t + 3)
       THEN 4
       ELSE 0

\* \s*: the position after the blanks that stand from i on
RECURSIVE SkipBlanks(_, _)
SkipBlanks(html, i) == IF CharAt(html, i, " ") THEN SkipBlanks(html, i + 1) ELSE i

\* (?:AM|PM) at position i, in either case
MeridiemAt(html, i) ==
  IF i >= 1 /\ LiteralAt(html, <<"A", "M">>, i, TRUE) THEN "AM"
  ELSE IF i >= 1 /\ LiteralAt(html, <<"P", "M">>, i, TRUE) THEN "PM"
  ELSE Null

\* (\d{1,2}:\d{2}\s*(?:AM|PM))<\/span> at position t: the position of the
\* closing tag, 0 when it does not stand there
TimeEndAt(html, t) ==
  LET After(a) == IF MeridiemAt(html, a) # Null /\ LiteralAt(html, SPAN_CLOSE, a + 2, TRUE)
                  THEN a + 2 ELSE 0
  IN IF ClockLengthAt(html, t) = 0 THEN 0
     ELSE After(SkipBlanks(html, t + ClockLengthAt(html, t)))

\* <span class="info2 horario"[^>]*> at position j with the time after it:
\* the position of the time, 0 when it does not stand there
TimeStartAt(html, j) ==
  LET Opened(r) == IF r # 0 /\ TimeEndAt(html, r + 1) # 0 THEN r + 1 ELSE 0
  IN IF j >= 1 /\ LiteralAt(html, TIME_OPEN, j, TRUE)
     THEN Opened(FirstCharFrom(html, j + Len(TIME_OPEN), {">"}))
     ELSE 0

\* the match of the pattern that starts at position i: match[1], match[2]
\* and the position after the match; [\s\S]*? stops at the first time span
NoMatch == [found |-> FALSE, animalInfo |-> <<>>, timeInfo |-> <<>>, end |-> 0]
patternMatchAt(html, i) ==
  LET Found(s, p, t) ==
        [found |-> TRUE, animalInfo |-> SubSeq(html, s, p - 1),
         timeInfo |-> SubSeq(html, t, TimeEndAt(html, t) - 1),
         end |-> TimeEndAt(html, t) + Len(SPAN_CLOSE)]
      Lazy(s, p, starts) ==
        IF starts = {} THEN NoMatch ELSE Found(s, p, TimeStartAt(html, FirstOf(starts)))
      Captured(s, p) ==
        IF p = 0 THEN NoMatch
        ELSE Lazy(s, p, { j \in (p + Len(SPAN_CLOSE))..Len(html) : TimeStartAt(html, j) # 0 })
  IN Captured(AfterInfoOpen(html, i), InfoCloseFrom(html, AfterInfoOpen(html, i)))

\* the matches pattern.exec gives from position i on, at most 30 of them
MAX_MATCHES == 30
RECURSIVE patternMatchesFrom(_, _, _)
patternMatchesFrom(html, i, matchCount) ==
  LET Resume(m) == << m >> \o patternMatchesFrom(html, m.end, matchCount + 1)
      Scan(starts) ==
        IF starts = {} THEN <<>> ELSE Resume(patternMatchAt(html, FirstOf(starts)))
  IN IF matchCount >= MAX_MATCHES THEN <<>>
     ELSE Scan({ j \in i..Len(html) : patternMatchAt(html, j).found })

\* Number of a text of one or two digits, and toString().padStart(2, '0') of
\* a number below 100
NumberOf(text) ==
  LET DigitValue(c) == (CHOOSE i \in DOMAIN Digits : Digits[i] = c) - 1
  IN IF Len(text) = 1 THEN DigitValue(text[1])
     ELSE 10 * DigitValue(text[1]) + DigitValue(text[2])
TwoDigits(n) == << Digits[(n \div 10) + 1], Digits[(n % 10) + 1] >>

\* the conversion of timeInfo from 12 to 24 hours (parseHTML, lines 222-229)
normalizedHourOfTime(timeInfo) ==
  LET Converted(h, m, isPM) ==
        TwoDigits(IF isPM /\ h # 12 THEN h + 12 ELSE IF ~isPM /\ h = 12 THEN 0 ELSE h)
        \o <<":">> \o TwoDigits(m)
      Split(n) == Converted(NumberOf(SubSeq(timeInfo, 1, n - 3)),
                            NumberOf(SubSeq(timeInfo, n - 1, n)),
                            MeridiemAt(timeInfo, Len(timeInfo) - 1) = "PM")
  IN Split(ClockLengthAt(timeInfo, 1))

\* the loop of parseHTML over the matches from the k-th on: a match whose
\* entity is not found, or whose hour and entity are already drawn, is skipped
RECURSIVE primaryDraws(_, _, _)
primaryDraws(matches, k, draws) ==
  LET Found(normalizedHour, animal) ==
        IF \/ animal = Null
           \/ \E n \in DOMAIN draws :
                draws[n].hour = normalizedHour /\ draws[n].animal = animal
        THEN primaryDraws(matches, k + 1, draws)
        ELSE primaryDraws(matches, k + 1,
                          Append(draws, [hour |-> normalizedHour, animal |-> animal]))
  IN IF k > Len(matches) THEN draws
     ELSE Found(normalizedHourOfTime(trim(matches[k].timeInfo)),
                findAnimalByNameOrNumber(trim(matches[k].animalInfo)))

\* the draws parseHTML returns for a section: those of the primary pattern,
\* those of the broader search when it gave none, one draw an hour, by hour
parsedDraws(sectionHtml) ==
  LET Broad(draws) == IF draws = <<>> THEN aggressiveHTMLParse(sectionHtml) ELSE draws
  IN uniqueHourDraws(Broad(primaryDraws(patternMatchesFrom(sectionHtml, 1, 0), 1, <<>>)))

\* LotoVenService.parseHTML on the page a fetch has answered with; the page
\* carries no section heading, so the whole of it is the section
parseHTML(l) ==
  /\ result.op = "fetched"
  /\ result.lottery = l
  /\ result' = [op |-> "parseHTML", lottery |-> l, html |-> result.html,
                draws |-> parsedDraws(result.html)]
  /\ UNCHANGED <<history, todayCache, lotovenCache, massiveLoad, now, nops, reported,
                 predictionCache, pending>>

\* pages of the structure the primary pattern is written for: one or two
\* results, each a span with the entity and a span with the 12-hour time; and
\* pages with the same tokens as bare text
SpanPair(animalInfo, timeInfo) ==
  INFO_OPEN \o <<"\"", ">">> \o animalInfo \o SPAN_CLOSE
  \o TIME_OPEN \o <<">">> \o timeInfo \o SPAN_CLOSE
Pages ==
  LET PageTimes ==
        { <<"1", ":", "4", "5", " ", "P", "M">>,
          <<"1", "2", ":", "3", "0", " ", "A", "M">>,
          <<"1", "2", ":", "3", "0", " ", "P", "M">>,
          <<"9", ":", "0", "0", " ", "A", "M">> }
      PageEntities == { <<"L", "e", "ó", "n">>, <<"0", "5">>, <<"9", "9">> }
  IN { SpanPair(e, t) : e \in PageEntities, t \in PageTimes }
     \cup { SpanPair(e, t) \o SpanPair(f, u) :
               e \in PageEntities, t \in PageTimes,
               f \in PageEntities, u \in PageTimes }
     \cup { e \o <<" ">> \o t : e \in PageEntities, t \in PageTimes }

\* the resolver applied to the token the extractor has cut out
resolveToken ==
  /\ result.op = "token"
  /\ result' = [op |-> "findAnimalByNameOrNumber", input |-> result.input,
                animal |-> findAnimalByNameOrNumber(result.input)]
  /\ UNCHANGED <<history, todayCache, lotovenCache, massiveLoad, now, nops, reported,
                 predictionCache, pending>>

\* The extractor called for the selected lottery as time passes
NextFetch ==
  \/ \E l \in Lotteries, outcomes \in AttemptSeqs : getResultsAttempting(l, outcomes, TRUE)
  \/ \E d \in AdvanceSteps : Advance(d)

SpecFetch == Init /\ [][NextFetch]_vars

\* The fallback of the extractor on the sections of a page
InitFetched ==
  /\ history = [l \in Lotteries |-> <<>>]
  /\ todayCache = [l \in Lotteries |-> NoCache]
  /\ lotovenCache = [l \in Lotteries |-> NoCache]
  /\ massiveLoad = [l \in Lotteries |-> -1]
  /\ now = StartTime
  /\ nops = 0
  /\ \E l \in Lotteries, html \in Sections :
       result = [op |-> "fetched", lottery |-> l, html |-> html]
  /\ reported = [l \in Lotteries |-> {}]
  /\ predictionCache = [l \in Lotteries |-> NoPrediction]
  /\ pending = [l \in Lotteries |-> NoCall]

NextExtract == \E l \in Lotteries : parseHTML(l)

SpecExtract == InitFetched /\ [][NextExtract]_vars

\* The extractor on pages of the structure of the site
InitPage ==
  /\ history = [l \in Lotteries |-> <<>>]
  /\ todayCache = [l \in Lotteries |-> NoCache]
  /\ lotovenCache = [l \in Lotteries |-> NoCache]
  /\ massiveLoad = [l \in Lotteries |-> -1]
  /\ now = StartTime
  /\ nops = 0
  /\ \E l \in Lotteries, html \in Pages :
       result = [op |-> "fetched", lottery |-> l, html |-> html]
  /\ reported = [l \in Lotteries |-> {}]
  /\ predictionCache = [l \in Lotteries |-> NoPrediction]
  /\ pending = [l \in Lotteries |-> NoCall]

SpecPage == InitPage /\ [][NextExtract]_vars

\* the draws of the extractor as the store model writes them: the live pages
\* of the model carry times on the hour, and the hour HH:00 is written HH
HourOfText(hour) == NumberOf(SubSeq(hour, 1, 2))
liveDraws(html) ==
  LET Stored(draws) ==
        [n \in DOMAIN draws |-> [hour |-> HourOfText(draws[n].hour),
                                 animal |-> draws[n].animal]]
  IN Stored(parsedDraws(html))

\* getHistoricalResults when the page the fetch answers with is html:
\* parseHTML gives its draws, already one an hour and in order, to getResults
WithPage(r, html) == [r EXCEPT !.response = [html |-> html] @@ @]
getHistoricalResultsOfPage(l, html, wok) ==
  /\ nops < MaxOps
  /\ nops' = nops + 1
  /\ FinishHistoricalResults(l,
        WithPage(HistoricalResults(l, getPersistentHistory(l), liveDraws(html), wok), html))
  /\ UNCHANGED <<massiveLoad, now, predictionCache, pending>>

\* live pages: results whose entity token names an entity or names none
LivePages ==
  { SpanPair(e, t) : e \in { <<"L", "e", "ó", "n">>, <<"9", "9">> },
                     t \in { <<"9", ":", "0", "0", " ", "A", "M">>, <<"1", "0", ":", "0", "0", " ", "A", "M">> } }
  \cup { SpanPair(<<"L", "e", "ó", "n">>, <<"9", ":", "0", "0", " ", "A", "M">>)
           \o SpanPair(<<"9", "9">>, <<"1", "0", ":", "0", "0", " ", "A", "M">>),
         SpanPair(<<"?">>, <<"9", ":", "0", "0", " ", "A", "M">>)
           \o SpanPair(<<"0", "6">>, <<"1", "0", ":", "0", "0", " ", "A", "M">>) }

\* Live merges from pages and backfills from the archive on one lottery
NextLive ==
  \/ \E html \in LivePages : getHistoricalResultsOfPage(SelectedLottery, html, TRUE)
  \/ \E items \in RowSeqs(MaxBatch) : loadMassiveHistoricalData(SelectedLottery, items, TRUE)
  \/ \E d \in AdvanceSteps : Advance(d)

SpecLive == Init /\ [][NextLive]_vars

\* The store operations of one lottery when the text under its history key
\* is missing, unparsable or no array at the start
StoredTexts == { <<>>, Unparsable, NotAnArray }
InitCorrupt ==
  /\ history \in [Lotteries -> StoredTexts]
  /\ \A l \in Lotteries \ {SelectedLottery} : history[l] = <<>>
  /\ todayCache = [l \in Lotteries |-> NoCache]
  /\ lotovenCache = [l \in Lotteries |-> NoCache]
  /\ massiveLoad = [l \in Lotteries |-> -1]
  /\ now = StartTime
  /\ nops = 0
  /\ result = [op |-> "init", lottery |-> Null]
  /\ reported = [l \in Lotteries |-> {}]
  /\ predictionCache = [l \in Lotteries |-> NoPrediction]
  /\ pending = [l \in Lotteries |-> NoCall]

NextCorrupt ==
  \/ \E raw \in RawMatches : getHistoricalResults(SelectedLottery, raw, TRUE)
  \/ \E items \in RowSeqs(MaxBatch) : loadMassiveHistoricalData(SelectedLottery, items, TRUE)
  \/ \E date \in ManualDates, hour \in PageHours, animal \in PageAnimals :
        addManualResult(SelectedLottery, date, hour, animal, TRUE)
  \/ getHistoryStats(SelectedLottery)

SpecCorrupt == InitCorrupt /\ [][NextCorrupt]_vars

\* Both lotteries in use: each has a stored history long enough to predict
\* from, and merges, backfills, manual entries, predictions and the two cache
\* clears are called on either
FrameHistories ==
  { h \in SufficientHistories :
      Len(h) = MIN_HISTORY_REQUIRED /\ \A i \in DOMAIN h : h[i].animal = "05" }
InitFrame ==
  /\ history \in [Lotteries -> FrameHistories]
  /\ todayCache = [l \in Lotteries |-> NoCache]
  /\ lotovenCache = [l \in Lotteries |-> NoCache]
  /\ massiveLoad = [l \in Lotteries |-> -1]
  /\ now = StartTime
  /\ nops = 0
  /\ result = [op |-> "init", lottery |-> Null]
  /\ reported = [l \in Lotteries |-> {}]
  /\ predictionCache = [l \in Lotteries |-> NoPrediction]
  /\ pending = [l \in Lotteries |-> NoCall]

NextFrame ==
  \/ \E l \in Lotteries :
        getHistoricalResults(l, <<[hour |-> 9, animal |-> "05"]>>, TRUE)
  \/ \E l \in Lotteries, items \in RowSeqs(1) : loadMassiveHistoricalData(l, items, TRUE)
  \/ \E l \in Lotteries, date \in ManualDates :
        addManualResult(l, date, 10, "06", TRUE)
  \/ \E l \in Lotteries :
        generatePrediction(l, [analysisDepth |-> 0, customWeights |-> NoWeights],
                           <<[hour |-> 9, animal |-> "05"]>>, TRUE)
  \/ \E l \in Lotteries \cup {Null} : clearTodayCache(l)
  \/ clearCache

SpecFrame == InitFrame /\ [][NextFrame]_vars

\* The resolver on the tokens of a page
InitToken ==
  /\ history = [l \in Lotteries |-> <<>>]
  /\ todayCache = [l \in Lotteries |-> NoCache]
  /\ lotovenCache = [l \in Lotteries |-> NoCache]
  /\ massiveLoad = [l \in Lotteries |-> -1]
  /\ now = StartTime
  /\ nops = 0
  /\ \E input \in Tokens : result = [op |-> "token", input |-> input]
  /\ reported = [l \in Lotteries |-> {}]
  /\ predictionCache = [l \in Lotteries |-> NoPrediction]
  /\ pending = [l \in Lotteries |-> NoCall]

NextResolve == resolveToken

SpecResolve == InitToken /\ [][NextResolve]_vars

\* The handlers of the selected lottery as the event loop runs them: a
\* getHistoricalResults that has to fetch gives way to the other handlers
\* until the fetch answers
NextAsync ==
  \/ BeginHistoricalResults(SelectedLottery)
  \/ \E raw \in RawMatches : ResumeHistoricalResults(SelectedLottery, raw, TRUE)
  \/ \E raw \in RawMatches : getHistoricalResults(SelectedLottery, raw, TRUE)
  \/ \E items \in RowSeqs(MaxBatch) :
        loadMassiveHistoricalData(SelectedLottery, items, TRUE)
  \/ \E date \in ManualDates, hour \in PageHours, animal \in PageAnimals :
        addManualResult(SelectedLottery, date, hour, animal, TRUE)
  \/ \E d \in AdvanceSteps : Advance(d)

SpecAsync == Init /\ [][NextAsync]_vars

\* The backfill of the selected lottery as the event loop runs it: a call
\* that has to fetch the archive gives way to other calls until it answers
NextBackfill ==
  \/ BeginMassiveLoad(SelectedLottery)
  \/ \E items \in RowSeqs(MaxBatch) : ResumeMassiveLoad(SelectedLottery, items, TRUE)
  \/ \E items \in RowSeqs(MaxBatch) :
        loadMassiveHistoricalData(SelectedLottery, items, TRUE)
  \/ \E d \in AdvanceSteps : Advance(d)

SpecBackfill == Init /\ [][NextBackfill]_vars

\* The store operations of the selected lottery, one after the other, over a
\* localStorage whose setItem may throw (quota exceeded)
NextQuota ==
  \/ \E raw \in RawMatches, wok \in BOOLEAN :
        getHistoricalResults(SelectedLottery, raw, wok)
  \/ \E items \in RowSeqs(MaxBatch), wok \in BOOLEAN :
        loadMassiveHistoricalData(SelectedLottery, items, wok)
  \/ \E date \in ManualDates, hour \in PageHours, animal \in PageAnimals, wok \in BOOLEAN :
        addManualResult(SelectedLottery, date, hour, animal, wok)
  \/ \E d \in AdvanceSteps : Advance(d)

SpecQuota == Init /\ [][NextQuota]_vars

\* =============================================================== claims ===
SameKey(a, b) == a.date = b.date /\ a.hour = b.hour /\ a.animal = b.animal

InSlot(hist, date, hour) == { i \in 1..Len(hist) : hist[i].date = date /\ hist[i].hour = hour }

\* the history hist holds the record rec: same date, hour and entity
Holds(hist, rec) == \E i \in 1..Len(hist) : SameKey(hist[i], rec)

\* some operation other than a read has just run
Stepped == nops' = nops + 1

\* C1: a live merge that delivers the same draws on the same date as the live
\* merge just before it on that lottery adds nothing and leaves the persisted
\* history as it was
C1_IdempotentMerge ==
  [][ ( /\ Stepped
        /\ result.op = "getHistoricalResults"
        /\ result'.op = "getHistoricalResults"
        /\ result'.lottery = result.lottery
        /\ result'.draws = result.draws
        /\ result'.date = result.date )
      => ( /\ result'.added = 0
           /\ history'[result.lottery] = history[result.lottery]
           /\ result'.totalResults = result.totalResults ) ]_vars

\* a live merge that delivered draws, found every one of them stored as a
\* live record of the day, and added nothing
C1_Witness ==
  /\ result.op = "getHistoricalResults"
  /\ nops >= 2
  /\ Len(result.draws) > 0
  /\ result.added = 0
  /\ \A i \in 1..Len(result.draws) :
        \E j \in 1..Len(history[result.lottery]) :
           LET h == history[result.lottery][j]
           IN /\ h.date = result.date /\ h.hour = result.draws[i].hour
              /\ h.animal = result.draws[i].animal /\ h.source = "LotoVen"

\* C2: the persisted history of a lottery never holds two records with the
\* same (date, hour, entity)
C2_NoDuplicateKey ==
  \A l \in Lotteries :
     \A i, j \in 1..Len(history[l]) :
        i # j => ~SameKey(history[l][i], history[l][j])

\* a backfill into an empty history that met a duplicate inside its batch
C2_Witness ==
  /\ result.op = "loadMassiveHistoricalData"
  /\ nops = 1
  /\ result.duplicates > 0
  /\ result.loaded > 0
  /\ Len(history[result.lottery]) = result.loaded

\* C3: a manual entry into a slot (date, hour) that holds any record returns
\* false and changes no history; into a free slot it returns true and the
\* history gains exactly the record (date, hour, entity, Manual)
C3_ManualExclusive ==
  [][ (Stepped /\ result'.op = "addManualResult")
      => LET l == result'.lottery
             old == history[l]
             new == history'[l]
         IN /\ \A k \in Lotteries \ {l} : history'[k] = history[k]
            /\ IF InSlot(old, result'.date, result'.hour) # {}
               THEN ~result'.success /\ new = old
               ELSE /\ result'.success
                    /\ Len(new) = Len(old) + 1
                    /\ \E r \in SeqToSet(new) :
                          /\ r.date = result'.date /\ r.hour = result'.hour
                          /\ r.animal = result'.animal /\ r.source = "Manual"
                          /\ SeqToSet(new) = SeqToSet(old) \cup {r}
                          /\ r \notin SeqToSet(old) ]_vars

\* a manual entry refused although the slot holds only another entity, from
\* an automatic source
C3_Witness ==
  /\ result.op = "addManualResult"
  /\ ~result.success
  /\ LET hist == history[result.lottery]
     IN /\ InSlot(hist, result.date, result.hour) # {}
        /\ \A i \in InSlot(hist, result.date, result.hour) :
              hist[i].animal # result.animal /\ hist[i].source # "Manual"

\* slots of a history that hold records of more than one entity
SharedSlots(hist) ==
  { <<hist[i].date, hist[i].hour>> : i \in
      { k \in 1..Len(hist) :
          \E j \in 1..Len(hist) : /\ hist[j].date = hist[k].date
                                  /\ hist[j].hour = hist[k].hour
                                  /\ hist[j].animal # hist[k].animal } }

\* C4: automatic merges can leave two entities in one slot (the witness), and
\* no manual entry ever makes a slot shared
C4_ManualNeverShares ==
  [][ (Stepped /\ result'.op = "addManualResult")
      => \A l \in Lotteries : SharedSlots(history'[l]) = SharedSlots(history[l]) ]_vars

\* two live records of one slot that differ in the entity only
C4_Witness ==
  \E l \in Lotteries : \E i, j \in 1..Len(history[l]) :
     LET a == history[l][i]
         b == history[l][j]
     IN /\ a.date = b.date /\ a.hour = b.hour /\ a.animal # b.animal
        /\ a.source = "LotoVen" /\ b.source = "LotoVen"

\* C5: whatever is stored stays stored, field by field
C5_AppendOnly ==
  [][ \A l \in Lotteries : SeqToSet(history[l]) \subseteq SeqToSet(history'[l]) ]_vars

\* a history written by both automatic sources, followed by a cache clear
C5_Witness ==
  /\ result.op = "clearTodayCache"
  /\ \E l \in Lotteries :
        { history[l][i].source : i \in 1..Len(history[l]) } =
           {"LotoVen", "LoteriaDehoy"}

\* C6: once no live merge is waiting for its fetch, the persisted history of
\* a lottery holds every record that a live merge, a backfill or a manual
\* entry on that lottery has reported as added, whatever the order in which
\* the handlers ran
C6_NoLostUpdate ==
  \A l \in Lotteries :
     ~pending[l].active => \A rec \in reported[l] : Holds(history[l], rec)

\* C7: every operation that reports records as added (addManualResult
\* returning true, a live merge or a backfill counting them) leaves those
\* records in the persisted history, also when the write to localStorage fails
C7_DurableWrites ==
  [][ \A l \in Lotteries :
        \A rec \in reported'[l] \ reported[l] : Holds(history'[l], rec) ]_vars

IsSortedDescending(hist) ==
  \A i \in 1..(Len(hist) - 1) :
     \/ hist[i].date > hist[i + 1].date
     \/ hist[i].date = hist[i + 1].date /\ hist[i].hour >= hist[i + 1].hour

\* C8: the history returned by getHistoricalResults is sorted by date
\* descending and, within a date, by hour descending
C8_ReturnedSorted ==
  result.op = "getHistoricalResults" => IsSortedDescending(result.history)

\* a returned history of two dates whose stored form is not in that order
C8_Witness ==
  /\ result.op = "getHistoricalResults"
  /\ ~IsSortedDescending(history[result.lottery])
  /\ Len(result.history) = Len(history[result.lottery])
  /\ Len(result.history) >= 3

\* C9: getHistoryStats returns the number of records, the least and the
\* greatest date, the distinct sources and the greatest recordedAt, the
\* placeholders on an empty history, and changes nothing in the store
C9_HistoryStats ==
  [][ (result'.op = "getHistoryStats")
      => LET hist == history[result'.lottery]
             st == result'.stats
         IN /\ UNCHANGED <<history, todayCache, lotovenCache, massiveLoad, predictionCache>>
            /\ st.totalEntries = Len(hist)
            /\ IF Len(hist) = 0
               THEN st.from = "N/A" /\ st.to = "N/A" /\ st.sources = <<>>
                    /\ st.lastUpdate = "Never"
               ELSE /\ \E i \in 1..Len(hist) : hist[i].date = st.from
                    /\ \A i \in 1..Len(hist) : hist[i].date >= st.from
                    /\ \E i \in 1..Len(hist) : hist[i].date = st.to
                    /\ \A i \in 1..Len(hist) : hist[i].date <= st.to
                    /\ SeqToSet(st.sources) = { hist[i].source : i \in 1..Len(hist) }
                    /\ Len(st.sources) = Cardinality(SeqToSet(st.sources))
                    /\ \E i \in 1..Len(hist) : hist[i].timestamp = st.lastUpdate
                    /\ \A i \in 1..Len(hist) : hist[i].timestamp <= st.lastUpdate ]_vars

\* statistics of a history of two dates and two sources whose newest
\* recordedAt is not on its first record
C9_Witness ==
  /\ result.op = "getHistoryStats"
  /\ result.stats.totalEntries >= 2
  /\ result.stats.from # result.stats.to
  /\ Len(result.stats.sources) >= 2
  /\ result.stats.lastUpdate # history[result.lottery][1].timestamp

RECURSIVE SumAppearances(_)
SumAppearances(fa) ==
  IF fa = <<>> THEN 0 ELSE Head(fa).totalAppearances + SumAppearances(Tail(fa))

\* C10: the analysis of a history has one entry per catalog entity, in catalog
\* order, and the totalAppearances of all entities add up to the number of
\* records analysed
C10_FrequencySum ==
  (result.op = "generatePrediction" /\ result.success /\ result.dataSource = "real-time")
  => LET fa == result.data.frequencyAnalysis
     IN /\ Len(fa) = Len(ANIMALS)
        /\ \A k \in 1..Len(fa) : fa[k].animalId = ANIMALS[k]
        /\ SumAppearances(fa) = Len(result.analysed)

\* an analysis of at least three records of two entities, written by a live
\* merge and by a backfill
C10_Witness ==
  /\ result.op = "generatePrediction" /\ result.success
  /\ result.dataSource = "real-time"
  /\ Len(result.analysed) >= 3
  /\ Cardinality({ result.analysed[i].animal : i \in 1..Len(result.analysed) }) >= 2
  /\ result.data.totalResults = Len(result.analysed)


\* the analysis has just been computed (not served from the score cache)
Computed ==
  \/ result.op = "analyzeHistoricalData"
  \/ result.op = "generatePrediction" /\ result.success /\ result.dataSource = "real-time"

\* records of the entity id among the first n records of hist
CountAmongFirst(hist, n, id) ==
  Cardinality({ i \in 1..Min(n, Len(hist)) : hist[i].animal = id })

\* C11: for each window w of 5, 10 and 20, the recent-appearance count of
\* every entity equals the number of its records among the w most recent
\* records of the analysed history (which is delivered most recent first)
C11_RecentWindow ==
  Computed =>
    \A k \in 1..Len(result.data.frequencyAnalysis) :
       LET f == result.data.frequencyAnalysis[k]
       IN /\ f.recentAppearances5 = CountAmongFirst(result.analysed, 5, f.animalId)
          /\ f.recentAppearances10 = CountAmongFirst(result.analysed, 10, f.animalId)
          /\ f.recentAppearances20 = CountAmongFirst(result.analysed, 20, f.animalId)

\* C12: for every entity with a record in the analysed history,
\* lastAppearanceDate is the greatest date among its records and
\* daysSinceLastAppearance the whole days from that date to now; for an
\* entity without a record they are null and 999
C12_AbsenceSignal ==
  Computed =>
    \A k \in 1..Len(result.data.frequencyAnalysis) :
       LET f == result.data.frequencyAnalysis[k]
           dates == { result.analysed[i].date :
                        i \in { j \in 1..Len(result.analysed) :
                                  result.analysed[j].animal = f.animalId } }
       IN IF dates = {}
          THEN f.lastAppearanceDate = Null /\ f.daysSinceLastAppearance = 999
          ELSE /\ f.lastAppearanceDate \in dates
               /\ \A d \in dates : d <= f.lastAppearanceDate
               /\ f.daysSinceLastAppearance =
                    (now - f.lastAppearanceDate * MinutesPerDay) \div MinutesPerDay

\* C13: the scored list holds every catalog entity once, its ranks are
\* exactly 1..N and the entity at position i has rank i
C13_RankDensity ==
  result.op = "analyzeHistoricalData" =>
    LET all == result.data.allAnimals
    IN /\ Len(all) = Len(ANIMALS)
       /\ { all[i].animalId : i \in 1..Len(all) } = SeqToSet(ANIMALS)
       /\ { all[i].rank : i \in 1..Len(all) } = 1..Len(ANIMALS)
       /\ \A i \in 1..Len(all) : all[i].rank = i

\* a non-empty history scored with custom weights in which two entities
\* have the same score
C13_Witness ==
  /\ result.op = "analyzeHistoricalData"
  /\ Len(result.analysed) >= 2
  /\ result.data.weights # DEFAULT_WEIGHTS
  /\ \E i \in 1..(Len(ANIMALS) - 1) :
        result.data.allAnimals[i].score = result.data.allAnimals[i + 1].score

\* C14: the category of a scored entity is given by its rank alone: 1..5
\* hot, 6..15 warm, 16..25 cold, above 25 frozen
C14_CategoryByRank ==
  result.op = "analyzeHistoricalData" =>
    LET all == result.data.allAnimals
    IN /\ \A i \in 1..Len(all) :
            /\ all[i].category = "hot" <=> all[i].rank \in 1..5
            /\ all[i].category = "warm" <=> all[i].rank \in 6..15
            /\ all[i].category = "cold" <=> all[i].rank \in 16..25
            /\ all[i].category = "frozen" <=> all[i].rank > 25
       /\ all[1].category = "hot"
       /\ all[Len(all)].category = "frozen"

\* a hot entity that the analyzer flags cold and not hot, on a history with
\* records
C14_Witness ==
  /\ result.op = "analyzeHistoricalData"
  /\ Len(result.analysed) > 0
  /\ \E i \in 1..Len(ANIMALS), k \in 1..Len(ANIMALS) :
        /\ result.data.allAnimals[i].category = "hot"
        /\ result.data.frequencyAnalysis[k].animalId = result.data.allAnimals[i].animalId
        /\ result.data.frequencyAnalysis[k].isCold
        /\ ~result.data.frequencyAnalysis[k].isHot

\* the analysis of an empty history: the whole catalog with zero counts and
\* the sentinel, ranked densely in catalog order
EmptyHistoryAnalysis ==
  /\ Len(result.data.frequencyAnalysis) = Len(ANIMALS)
  /\ \A k \in 1..Len(ANIMALS) :
        LET f == result.data.frequencyAnalysis[k]
        IN /\ f.animalId = ANIMALS[k]
           /\ f.totalAppearances = 0
           /\ f.recentAppearances5 = 0 /\ f.recentAppearances10 = 0
           /\ f.recentAppearances20 = 0
           /\ f.daysSinceLastAppearance = NEVER_APPEARED
  /\ Len(result.data.allAnimals) = Len(ANIMALS)
  /\ \A i \in 1..Len(ANIMALS) :
        /\ result.data.allAnimals[i].rank = i
        /\ result.data.allAnimals[i].animalId = ANIMALS[i]

\* C15 as stated: analysing and scoring an empty history gives the whole
\* catalog with zero counts and the sentinel 999, ranked 1..37 in catalog
\* order, and every score is 0
C15_EmptyHistoryAllZero ==
  (result.op = "analyzeHistoricalData" /\ result.analysed = <<>>) =>
    /\ EmptyHistoryAnalysis
    /\ \A i \in 1..Len(ANIMALS) : result.data.allAnimals[i].score = 0

\* C15 amended: ... and every score is the same, 100 times the absence
\* weight (the sentinel is the maximum of its signal and normalises to 1)
C15_EmptyHistoryEqualScores ==
  (result.op = "analyzeHistoricalData" /\ result.analysed = <<>>) =>
    /\ EmptyHistoryAnalysis
    /\ \A i \in 1..Len(ANIMALS) :
          result.data.allAnimals[i].score =
             result.data.weights.daysSinceAppearance * result.data.allAnimals[i].scoreDen

\* an empty history analysed under the default weights
C15_Witness ==
  /\ result.op = "analyzeHistoricalData"
  /\ result.analysed = <<>>
  /\ result.data.weights = DEFAULT_WEIGHTS
  /\ result.data.allAnimals[Len(ANIMALS)].rank = Len(ANIMALS)

\* C16: a generatePrediction on a lottery whose history has fewer than
\* MIN_HISTORY_REQUIRED records returns success = false without data and
\* writes nothing to the score cache
C16_InsufficientHistory ==
  [][ ( /\ Stepped
        /\ result'.op = "generatePrediction"
        /\ Len(history'[result'.lottery]) < MIN_HISTORY_REQUIRED )
      => ( /\ ~result'.success
           /\ "data" \notin DOMAIN result'
           /\ predictionCache' = predictionCache ) ]_vars

\* C17: a successful generatePrediction returns the weights of its own
\* request laid over the defaults and an analysis over the request's
\* analysisDepth, whatever requests came before
C17_WeightsPerRequest ==
  (result.op = "generatePrediction" /\ result.success) =>
    /\ result.data.weights = SpreadWeights(result.request.customWeights)
    /\ result.data.totalResults =
          IF result.request.analysisDepth > 0
          THEN Min(result.request.analysisDepth, Len(history[result.lottery]))
          ELSE Len(history[result.lottery])
    /\ result.data.allAnimals =
          categorizeAnimals(calculatePredictionScores(
            result.data.frequencyAnalysis, SpreadWeights(result.request.customWeights)))

\* C18: when every attempt of a getResults call throws or yields no draws,
\* the call returns no draws and one sources entry that states the number
\* of attempts made, and the extractor cache is not written
C18_NeverFabricate ==
  [][ ( /\ result'.op = "getResults"
        /\ ~result'.cached
        /\ \A i \in 1..NumAttempts :
              result'.outcomes[i].threw \/ uniqueDraws(result'.outcomes[i].page) = <<>> )
      => ( /\ result'.draws = <<>>
           /\ Len(result'.sources) = 1
           /\ result'.sources[1].attempts = NumAttempts
           /\ lotovenCache' = lotovenCache ) ]_vars

\* the matches of catalog names and numbers of html that stand outside every
\* time token of it
EntityTokensOf(html) ==
  { c \in animalMatches(html) \cup numberMatches(html) :
      \A n \in DOMAIN hourMatches(html) :
        \/ c.position < hourMatches(html)[n].position
        \/ c.position >= hourMatches(html)[n].position + Len(hourMatches(html)[n].text) }

\* C19: where the primary pattern matches nothing, every time token of the
\* section is paired with the entity token nearest to it within 200
\* characters (07:30 with León when the name stands within 50 characters)
\* and a time token with no entity token in that window gives no draw
C19_ProximityFallback ==
  result.op = "parseHTML" =>
    \A n \in DOMAIN hourMatches(result.html) :
      LET HourPaired(hour, near) ==
            IF near = {}
            THEN \A k \in DOMAIN result.draws : result.draws[k].hour # hour
            ELSE \E k \in DOMAIN result.draws :
                   /\ result.draws[k].hour = hour
                   /\ \E c \in near :
                        /\ c.animal = result.draws[k].animal
                        /\ \A d \in near :
                             Distance(c.position, hourMatches(result.html)[n].position)
                               <= Distance(d.position, hourMatches(result.html)[n].position)
      IN HourPaired(normalizedHourOf(hourMatches(result.html)[n].text),
                    InWindow(EntityTokensOf(result.html),
                             hourMatches(result.html)[n].position))

\* the catalog entries a token matches at step k of the resolution order
MaxLength(a, b) == IF Len(a) >= Len(b) THEN Len(a) ELSE Len(b)
Similar(normalizedInput) ==
  { i \in DOMAIN ANIMALS :
      IsSimilar(levenshteinDistance(normalizedInput, normalizeText(AnimalNames[i])),
                MaxLength(normalizedInput, normalizeText(AnimalNames[i]))) }
StepMatches(k, cleanInput) ==
  CASE k = 1 -> { i \in DOMAIN ANIMALS :
                    /\ numberMatch(cleanInput) # <<>>
                    /\ NumberText(i) = padStart(numberMatch(cleanInput)) }
    [] k = 2 -> { i \in DOMAIN ANIMALS :
                    toLowerCase(AnimalNames[i]) = toLowerCase(cleanInput) }
    [] k = 3 -> { i \in DOMAIN ANIMALS :
                    normalizeText(AnimalNames[i]) = normalizeText(cleanInput) }
    [] k = 4 -> { i \in DOMAIN ANIMALS :
                    \/ Includes(normalizeText(AnimalNames[i]), normalizeText(cleanInput))
                    \/ Includes(normalizeText(cleanInput), normalizeText(AnimalNames[i])) }
    [] k = 5 -> { i \in Similar(normalizeText(cleanInput)) :
                    \A j \in Similar(normalizeText(cleanInput)) :
                      levenshteinDistance(normalizeText(cleanInput),
                                          normalizeText(AnimalNames[i]))
                        <= levenshteinDistance(normalizeText(cleanInput),
                                               normalizeText(AnimalNames[j])) }

\* the answers the resolution order allows for a token when steps k to last
\* are tried in turn and the first step with a match decides
RECURSIVE OrderedResolution(_, _, _)
OrderedResolution(cleanInput, k, last) ==
  IF k > last THEN { Null }
  ELSE IF StepMatches(k, cleanInput) = {} THEN OrderedResolution(cleanInput, k + 1, last)
  ELSE IF k = 5 THEN { ANIMALS[i] : i \in StepMatches(k, cleanInput) }
  ELSE { AnimalAt(FirstOf(StepMatches(k, cleanInput))) }

\* the examples of the resolution: 05 is the entity of code 05, and León,
\* leon and LEÓN are one entity
ResolvedExamples ==
  /\ result.input = <<"0", "5">> => result.animal = "05"
  /\ result.input \in { <<"L", "e", "ó", "n">>, <<"l", "e", "o", "n">>,
                         <<"L", "E", "Ó", "N">> } => result.animal = "05"

\* C20 as stated: the resolver answers what the five steps give when tried in
\* order on the token, first match wins, and null when none matches; 05
\* resolves to code 05, and León, leon and LEÓN to the same entity
C20_ResolverOrderUnguarded ==
  result.op = "findAnimalByNameOrNumber" =>
    /\ result.animal \in OrderedResolution(trim(result.input), 1, 5)
    /\ ResolvedExamples

\* C20: the resolver answers what the five steps give when tried in order on
\* the token, first match wins, where steps (3) to (5) are tried only for a
\* token whose normalized form has at least two letters, and null when no
\* step tried matches; 05 resolves to code 05, and León, leon and LEÓN to the
\* same entity
C20_ResolverOrder ==
  result.op = "findAnimalByNameOrNumber" =>
    /\ result.animal \in OrderedResolution(trim(result.input), 1,
                            IF Len(normalizeText(trim(result.input))) < 2 THEN 2 ELSE 5)
    /\ ResolvedExamples

\* the token LEÓN has been resolved to the entity of León
C20_Witness ==
  /\ result.op = "findAnimalByNameOrNumber"
  /\ result.input = <<"L", "E", "Ó", "N">>
  /\ result.animal = "05"

\* C21: a backfill call that completes while the marker of its lottery is
\* less than 7 days old has not fetched the archive, returns loaded = 0 and
\* leaves the history and the marker as they were, so that the archive is
\* fetched at most once in any 7-day span, overlapping calls included
C21_BackfillRateLimit ==
  [][ \A l \in Lotteries :
        ( /\ LoadedRecently(l)
          /\ result'.op = "loadMassiveHistoricalData"
          /\ result'.lottery = l )
        => ( /\ ~result'.fetched
             /\ result'.loaded = 0
             /\ history'[l] = history[l]
             /\ massiveLoad'[l] = massiveLoad[l] ) ]_vars

\* a and b hold the same records, each as many times
SameRecords(a, b) ==
  /\ Len(a) = Len(b)
  /\ \A i \in 1..Len(b) :
       Cardinality({ k \in 1..Len(a) : a[k] = b[i] })
         = Cardinality({ k \in 1..Len(b) : b[k] = b[i] })

\* a ranking of the whole catalog: every entity once, ranks 1 to 37 in order
FullRanking(allAnimals) ==
  /\ Len(allAnimals) = Len(ANIMALS)
  /\ \A i \in 1..Len(allAnimals) : allAnimals[i].rank = i
  /\ { allAnimals[i].animalId : i \in 1..Len(allAnimals) } = SeqToSet(ANIMALS)

\* the step made an extraction for lottery l that gave no draw: both caches
\* had expired and neither has been written
ExtractionGaveNothing(l) ==
  /\ ~Unexpired(todayCache[l], CACHE_DURATION)
  /\ ~Unexpired(lotovenCache[l], LOTOVEN_CACHE_DURATION)
  /\ todayCache'[l] = todayCache[l]
  /\ lotovenCache'[l] = lotovenCache[l]

\* C22: when the extraction fails or yields nothing, getHistoricalResults
\* returns success with every record of the persisted history and leaves the
\* stored history as it was, and generatePrediction over a stored history of
\* at least MIN_HISTORY_REQUIRED records returns a ranking of the whole catalog
C22_DegradedPipeline ==
  [][ \A l \in Lotteries :
        /\ ( /\ result'.op = "getHistoricalResults"
             /\ result'.lottery = l
             /\ ExtractionGaveNothing(l) )
           => ( /\ result'.success
                /\ result'.draws = <<>>
                /\ SameRecords(result'.history, history[l])
                /\ history'[l] = history[l] )
        /\ ( /\ result'.op = "generatePrediction"
             /\ result'.lottery = l
             /\ ~Unexpired(predictionCache[l], PREDICTION_CACHE_DURATION)
             /\ ExtractionGaveNothing(l)
             /\ Len(history[l]) >= MIN_HISTORY_REQUIRED )
           => ( /\ result'.success
                /\ FullRanking(result'.data.allAnimals)
                /\ history'[l] = history[l] ) ]_vars

\* a prediction has been computed over a stored history of at least
\* MIN_HISTORY_REQUIRED records while no extraction has ever given a draw
C22_Witness ==
  /\ result.op = "generatePrediction"
  /\ result.success
  /\ result.dataSource = "real-time"
  /\ Len(history[result.lottery]) >= MIN_HISTORY_REQUIRED
  /\ ~todayCache[result.lottery].present
  /\ ~lotovenCache[result.lottery].present
  /\ FullRanking(result.data.allAnimals)

\* C23: the getTodayResults that follows a clearTodayCache of its lottery (or
\* of every lottery) makes a fresh extraction from the remote page, whatever
\* the age of the draws cached before
C23_ClearForcesFetch ==
  [][ ( /\ result.op = "clearTodayCache"
        /\ result'.op = "getHistoricalResults"
        /\ result.lottery \in { result'.lottery, Null } )
      => result'.fetched ]_vars

\* C24: a getResults call made while the entry of its lottery is no older
\* than the TTL makes no network attempt and returns the draws of the entry
\* with every source of it tagged (cached) exactly once; a call made with no
\* entry or after the TTL fetches; the entry is written only by a fetch that
\* gave draws, with those draws, and the entry of the other lottery is left
\* alone
C24_ExtractorCache ==
  [][ \A l \in Lotteries :
        (result'.op = "getResults" /\ result'.lottery = l) =>
          /\ IF /\ lotovenCache[l].present
                /\ now - lotovenCache[l].timestamp <= LOTOVEN_CACHE_DURATION
             THEN /\ result'.cached
                  /\ result'.draws = lotovenCache[l].draws
                  /\ Len(result'.sources) = Len(lotovenCache[l].sources)
                  /\ \A i \in 1..Len(result'.sources) :
                       /\ result'.sources[i].cached = 1
                       /\ result'.sources[i].text = lotovenCache[l].sources[i].text
                  /\ lotovenCache'[l] = lotovenCache[l]
             ELSE ~result'.cached
          /\ lotovenCache'[l] # lotovenCache[l] =>
                /\ result'.draws # <<>>
                /\ lotovenCache'[l].draws = result'.draws
                /\ lotovenCache'[l].timestamp = now
          /\ (~result'.cached /\ result'.draws = <<>>) => lotovenCache'[l] = lotovenCache[l]
          /\ \A k \in Lotteries \ {l} : lotovenCache'[k] = lotovenCache[k] ]_vars

\* a call has been answered from the entry a call before it had cached
C24_Witness ==
  /\ result.op = "getResults"
  /\ result.cached
  /\ result.draws # <<>>
  /\ Len(result.sources) = 1
  /\ result.sources[1].cached = 1

\* C25: the persisted history of every lottery is sorted by date descending
\* and, within a date, by hour descending, after every write
C25_StoredSorted ==
  \A l \in Lotteries : IsSortedDescending(history[l])

\* the position of an entity in the catalog
CatalogPosition(animalId) ==
  CHOOSE k \in 1..Len(ANIMALS) : ANIMALS[k] = animalId

\* C26: in the scored list the score at position i is at least the score at
\* every later position j, and of two entities with the same score the one
\* that stands earlier in the catalog stands earlier in the list
C26_ScoreOrder ==
  result.op = "analyzeHistoricalData" =>
    LET all == result.data.allAnimals
    IN \A i \in 1..Len(all) : \A j \in (i + 1)..Len(all) :
          /\ all[i].score >= all[j].score
          /\ all[i].score = all[j].score =>
                CatalogPosition(all[i].animalId) < CatalogPosition(all[j].animalId)

\* a scored list that is not in catalog order and holds both two entities
\* with the same score and two with different scores
C26_Witness ==
  /\ result.op = "analyzeHistoricalData"
  /\ LET all == result.data.allAnimals
     IN /\ \E i \in 1..(Len(all) - 1) :
             CatalogPosition(all[i].animalId) > CatalogPosition(all[i + 1].animalId)
        /\ \E i \in 1..(Len(all) - 1) : all[i].score = all[i + 1].score
        /\ \E i \in 1..(Len(all) - 1) : all[i].score > all[i + 1].score

\* the 24-hour form of every 12-hour time of a page: each hour token that
\* AM or PM follows, 12 AM as 00, 12 PM as 12, any other PM hour 12 later
TwentyFourHourTimes(html) ==
  LET Form(h, m, meridiem) ==
        TwoDigits(IF meridiem = "AM" THEN (IF h = 12 THEN 0 ELSE h)
                  ELSE (IF h = 12 THEN 12 ELSE h + 12))
        \o <<":">> \o TwoDigits(m)
      Time(token) ==
        [text |-> token.text,
         meridiem |-> MeridiemAt(html, SkipBlanks(html, token.position + Len(token.text)))]
      times == { Time(hourMatches(html)[n]) : n \in DOMAIN hourMatches(html) }
  IN { Form(NumberOf(SubSeq(t.text, 1, Len(t.text) - 3)),
            NumberOf(SubSeq(t.text, Len(t.text) - 1, Len(t.text))), t.meridiem) :
       t \in { u \in times : u.meridiem # Null } }

\* C27: every draw the extractor emits carries the 24-hour form of a 12-hour
\* time of the page, on the path of the primary pattern and on the path of
\* the proximity search, and no two draws have the same hour and entity
C27_HourNormalisation ==
  result.op = "parseHTML" =>
    /\ \A k \in DOMAIN result.draws :
          result.draws[k].hour \in TwentyFourHourTimes(result.html)
    /\ \A j, k \in DOMAIN result.draws :
          (result.draws[j].hour = result.draws[k].hour
           /\ result.draws[j].animal = result.draws[k].animal) => j = k

\* the entity tokens the primary pattern cuts out of a page
PageTokens(html) ==
  { trim(m.animalInfo) : m \in SeqToSet(patternMatchesFrom(html, 1, 0)) }

\* C28: after every live merge and backfill each stored record has an entity
\* of the catalog; a live merge adds records only of entities that a token of
\* the page resolves to, so a token that resolves to none adds no record; and
\* a backfill adds only the rows it counts as loaded
C28_UnresolvedNeverStored ==
  [][ \A l \in Lotteries :
        /\ \A i \in DOMAIN history'[l] :
              /\ history'[l][i].animal # Null
              /\ history'[l][i].animal \in SeqToSet(ANIMALS)
        /\ (result'.op = "getHistoricalResults" /\ result'.lottery = l) =>
              \A rec \in NewRecords(history'[l], history[l]) :
                 \E token \in PageTokens(result'.html) :
                    findAnimalByNameOrNumber(token) = rec.animal
        /\ (result'.op = "loadMassiveHistoricalData" /\ result'.lottery = l) =>
              /\ Len(history'[l]) = Len(history[l]) + result'.loaded
              /\ \A rec \in NewRecords(history'[l], history[l]) :
                    rec.number \in animalMap ]_vars

\* C29: when the text under the history key of a lottery is missing,
\* unparsable or no array, each store operation on that lottery completes as
\* it does on an empty history: the statistics are those of no entries, a
\* manual entry is accepted and stored alone, a live merge succeeds and
\* returns and stores the draws of the page alone, and a backfill stores the
\* rows it loads alone
C29_CorruptionFailsOpen ==
  [][ \A l \in Lotteries :
        (history[l] \in StoredTexts /\ result'.lottery = l) =>
          /\ result'.op = "getHistoryStats" =>
                /\ result'.stats.totalEntries = 0
                /\ result'.stats.sources = <<>>
                /\ history'[l] = history[l]
          /\ result'.op = "addManualResult" =>
                /\ result'.success
                /\ Len(history'[l]) = 1
                /\ history'[l][1].source = "Manual"
                /\ history'[l][1].date = result'.date
                /\ history'[l][1].hour = result'.hour
                /\ history'[l][1].animal = result'.animal
          /\ result'.op = "getHistoricalResults" =>
                /\ result'.success
                /\ result'.totalResults = result'.added
                /\ Len(result'.history) = result'.added
                /\ \A i \in DOMAIN result'.history : result'.history[i].source = "LotoVen"
                /\ IF result'.added > 0
                   THEN SeqToSet(history'[l]) = SeqToSet(result'.history)
                   ELSE history'[l] = history[l]
          /\ (result'.op = "loadMassiveHistoricalData" /\ result'.fetched
                /\ result'.success) =>
                /\ Len(history'[l]) = result'.loaded
                /\ \A i \in DOMAIN history'[l] : history'[l][i].source = "LoteriaDehoy" ]_vars

\* the statistics read while the text stored is one JSON.parse throws on
C29_Witness ==
  /\ result.op = "getHistoryStats"
  /\ history[result.lottery] = Unparsable
  /\ result.stats.totalEntries = 0

\* C30: clearTodayCache, with or without a lottery, and
\* PredictionService.clearCache change no stored history and no backfill
\* marker; and a merge, a backfill, a manual entry or a prediction on one
\* lottery changes neither the stored history nor the today-cache nor the
\* score cache of the other
C30_FrameEffects ==
  [][ /\ result'.op \in {"clearTodayCache", "clearCache"} =>
            history' = history /\ massiveLoad' = massiveLoad
      /\ \A l \in Lotteries : \A k \in Lotteries \ {l} :
            ( /\ result'.lottery = l
              /\ result'.op \in {"getHistoricalResults", "loadMassiveHistoricalData",
                                 "addManualResult", "generatePrediction"} )
            => /\ history'[k] = history[k]
               /\ todayCache'[k] = todayCache[k]
               /\ predictionCache'[k] = predictionCache[k] ]_vars

\* every today-cache has been cleared while both lotteries keep their
\* histories, one its backfill marker and one its score cache
C30_Witness ==
  /\ result.op = "clearTodayCache"
  /\ result.lottery = Null
  /\ \A l \in Lotteries : Len(history[l]) >= MIN_HISTORY_REQUIRED
  /\ \E l \in Lotteries : massiveLoad[l] # -1
  /\ \E l \in Lotteries : predictionCache[l].present
====
